---- MODULE Spec2Model ----
(***************************************************************************)
(* Model of the global search module (scripts/search.js): the debounced    *)
(* query input, the entity scanners, the filter predicates and the search  *)
(* history.  JavaScript strings that the code inspects character by        *)
(* character (queries, names, subjects, period bounds) are sequences of    *)
(* one-character strings; day names are only used as object keys and are   *)
(* plain strings, "" being the empty (falsy) day.                          *)
(***************************************************************************)
EXTENDS Integers, Sequences, FiniteSets, Bags, TLC

\* ------------------------------------------------------------------------
\* SEARCH_CONFIG
\* ------------------------------------------------------------------------
DEBOUNCE_DELAY == 250
MAX_HISTORY_ITEMS == 10
MIN_SEARCH_LENGTH == 1

\* ------------------------------------------------------------------------
\* Bounds of the model
\* ------------------------------------------------------------------------
\* number of handleSearchInput calls in one behaviour
MaxCalls == 2

\* number of handleSearchInput calls in one behaviour of the scenarios that
\* add to an empty history
MaxAdds == 3

\* number of fetch events that the service worker handles at the same time
MaxFetches == 2

\* ------------------------------------------------------------------------
\* JavaScript values
\* ------------------------------------------------------------------------
\* A JavaScript number is a one-element sequence <<n>>; NaN, the result of
\* parseInt on text that holds no number, is the empty sequence.
NaN == << >>
Num(n) == <<n>>
\* A timetable slot is a sequence of zero or one period record: the empty
\* sequence is the falsy (free) slot.
Free == << >>

S0 == << >>

LowerCase == <<"a","b","c","d","e","f","g","h","i","j","k","l","m",
               "n","o","p","q","r","s","t","u","v","w","x","y","z">>
UpperCase == <<"A","B","C","D","E","F","G","H","I","J","K","L","M",
               "N","O","P","Q","R","S","T","U","V","W","X","Y","Z">>
Digits == <<"0","1","2","3","4","5","6","7","8","9">>
WhiteSpace == {" ", "\t", "\n"}

SetMin(S) == CHOOSE x \in S : \A y \in S : x <= y
SetMax(S) == CHOOSE x \in S : \A y \in S : x >= y

\* the lower-case letter of every capital
LowerOf == [c \in {UpperCase[i] : i \in 1..26} |->
              LowerCase[CHOOSE i \in 1..26 : UpperCase[i] = c]]

\* String.prototype.toLowerCase, one character
ToLowerChar(c) == IF c \in DOMAIN LowerOf THEN LowerOf[c] ELSE c

\* String.prototype.toLowerCase
ToLowerCase(s) == [i \in 1..Len(s) |-> ToLowerChar(s[i])]

\* String.prototype.trim
Trim(s) ==
    LET keep == {i \in 1..Len(s) : s[i] \notin WhiteSpace}
    IN  IF keep = {} THEN S0 ELSE SubSeq(s, SetMin(keep), SetMax(keep))

\* String.prototype.includes
Includes(s, sub) ==
    \E i \in 0..(Len(s) - Len(sub)) : SubSeq(s, i + 1, i + Len(sub)) = sub

\* String.prototype.split with a one-character separator
RECURSIVE Split(_, _)
Split(s, sep) ==
    LET cuts == {i \in 1..Len(s) : s[i] = sep}
    IN  IF cuts = {} THEN <<s>>
        ELSE <<SubSeq(s, 1, SetMin(cuts) - 1)>>
             \o Split(SubSeq(s, SetMin(cuts) + 1, Len(s)), sep)

ValueOf == [c \in {Digits[i] : i \in 1..10} |-> (CHOOSE i \in 1..10 : Digits[i] = c) - 1]
DigitValue(c) == ValueOf[c]
IsDigit(c) == c \in DOMAIN ValueOf

RECURSIVE DigitsValue(_)
DigitsValue(ds) ==
    IF ds = S0 THEN 0
    ELSE 10 * DigitsValue(SubSeq(ds, 1, Len(ds) - 1)) + DigitValue(ds[Len(ds)])

\* parseInt(s) with the default radix, on text without a 0x prefix: leading
\* white space is skipped, a sign is accepted, the longest run of digits is
\* read; NaN when there is no digit to read.
ParseInt(s) ==
    LET nonws == {i \in 1..Len(s) : s[i] \notin WhiteSpace}
        b == IF nonws = {} THEN Len(s) + 1 ELSE SetMin(nonws)
        signed == b <= Len(s) /\ s[b] \in {"+", "-"}
        d == IF signed THEN b + 1 ELSE b
        stops == {i \in d..Len(s) : ~IsDigit(s[i])}
        e == IF stops = {} THEN Len(s) ELSE SetMin(stops) - 1
    IN  IF e < d THEN NaN
        ELSE IF signed /\ s[b] = "-" THEN Num(0 - DigitsValue(SubSeq(s, d, e)))
        ELSE Num(DigitsValue(SubSeq(s, d, e)))

\* x || 0 on a number: NaN and 0 are falsy
OrZero(x) == IF x = NaN THEN Num(0) ELSE x

\* ------------------------------------------------------------------------
\* FILTER LOGIC
\* A FilterSet value is [day, periodRange |-> [start, end], subject,
\* teacherAvailability]; a teacher's details are [subjects, periodCount,
\* schedule], schedule mapping a day to a map from period index to a
\* presence marker; a timetable maps a day to a map from class name to the
\* sequence of the day's slots (slot p of the code is element p + 1).
\* ------------------------------------------------------------------------
EmptyFilters ==
    [day |-> "", periodRange |-> [start |-> S0, end |-> S0],
     subject |-> S0, teacherAvailability |-> FALSE]

\* the periods p = startPeriod, startPeriod + 1, ... with p <= endPeriod
LoopRange(startPeriod, endPeriod) ==
    IF endPeriod = NaN THEN {} ELSE startPeriod[1]..endPeriod[1]

\* applyTeacherFilters with the availability loop stopping before endPeriod
applyTeacherFiltersExclusiveEnd(name, details, f) ==
    LET day == f.day
        periodRange == f.periodRange
        startPeriod == OrZero(ParseInt(periodRange.start))
        endPeriod == IF periodRange.end # S0 THEN ParseInt(periodRange.end)
                     ELSE startPeriod
    IN  IF /\ day # ""
           /\ (\/ day \notin DOMAIN details.schedule
               \/ DOMAIN details.schedule[day] = {})
        THEN FALSE
        ELSE IF /\ f.teacherAvailability /\ day # "" /\ periodRange.start # S0
                /\ \E p \in LoopRange(startPeriod, endPeriod) :
                       /\ p + 1 \in LoopRange(startPeriod, endPeriod)
                       /\ p \in DOMAIN details.schedule[day]
                       /\ details.schedule[day][p]
        THEN FALSE
        ELSE TRUE

applyTeacherFilters(name, details, f) ==
    LET day == f.day
        periodRange == f.periodRange
        hasSchedule == "schedule" \in DOMAIN details
        startPeriod == OrZero(ParseInt(periodRange.start))
        endPeriod == IF periodRange.end # S0 THEN ParseInt(periodRange.end)
                     ELSE startPeriod
    IN  IF /\ day # "" /\ hasSchedule
           /\ (\/ day \notin DOMAIN details.schedule
               \/ DOMAIN details.schedule[day] = {})
        THEN FALSE
        ELSE IF /\ f.teacherAvailability /\ day # "" /\ periodRange.start # S0
                /\ hasSchedule /\ day \in DOMAIN details.schedule
                /\ \E p \in LoopRange(startPeriod, endPeriod) :
                       /\ p \in DOMAIN details.schedule[day]
                       /\ details.schedule[day][p]
        THEN FALSE
        ELSE TRUE

\* applyClassFilters comparing the subject without lower-casing it
applyClassFiltersCaseSensitive(className, timetable, f) ==
    LET day == f.day
        periodRange == f.periodRange
        subject == f.subject
        present == day \in DOMAIN timetable /\ className \in DOMAIN timetable[day]
        periods == timetable[day][className]
        startPeriod == OrZero(ParseInt(periodRange.start))
        endPeriod == IF periodRange.end # S0 THEN ParseInt(periodRange.end)
                     ELSE startPeriod
        hasMatch == \E p \in LoopRange(startPeriod, endPeriod) :
                        /\ p >= 0 /\ p < Len(periods)
                        /\ periods[p + 1] # Free
        hasSubject == \E i \in 1..Len(periods) :
                        /\ periods[i] # Free
                        /\ periods[i][1].subject # S0
                        /\ Includes(periods[i][1].subject, subject)
    IN  IF day = "" THEN TRUE
        ELSE IF ~present THEN FALSE
        ELSE IF periodRange.start # S0 /\ ~hasMatch THEN FALSE
        ELSE IF subject # S0 /\ ~hasSubject THEN FALSE
        ELSE TRUE

applyClassFilters(className, timetable, f) ==
    LET day == f.day
        periodRange == f.periodRange
        subject == f.subject
        present == day \in DOMAIN timetable /\ className \in DOMAIN timetable[day]
        periods == timetable[day][className]
        startPeriod == OrZero(ParseInt(periodRange.start))
        endPeriod == IF periodRange.end # S0 THEN ParseInt(periodRange.end)
                     ELSE startPeriod
        hasMatch == \E p \in LoopRange(startPeriod, endPeriod) :
                        /\ p >= 0 /\ p < Len(periods)
                        /\ periods[p + 1] # Free
        hasSubject == \E i \in 1..Len(periods) :
                        /\ periods[i] # Free
                        /\ periods[i][1].subject # S0
                        /\ Includes(ToLowerCase(periods[i][1].subject),
                                    ToLowerCase(subject))
    IN  IF day = "" THEN TRUE
        ELSE IF ~present THEN FALSE
        ELSE IF periodRange.start # S0 /\ ~hasMatch THEN FALSE
        ELSE IF subject # S0 /\ ~hasSubject THEN FALSE
        ELSE TRUE

applySubjectFilters(subject, f) ==
    IF f.subject # S0
       /\ ~Includes(ToLowerCase(subject.name), ToLowerCase(f.subject))
    THEN FALSE
    ELSE TRUE

\* ------------------------------------------------------------------------
\* Object keys and ordering
\* Object.keys lists the keys of an object in insertion order.  The data
\* sets of the model insert days, class names and teacher names in the
\* order of these three sequences.
\* ------------------------------------------------------------------------
DayOrder == <<"Monday", "Tuesday">>
ClassOrder == << <<"6","B">>, <<"6","A">>, <<"M","a","t","h"," ","L","a","b">> >>
TeacherOrder == << <<"B","o","b">>, <<"A","n","n">>, <<"A">>, <<"B">> >>

Range(seq) == {seq[i] : i \in 1..Len(seq)}

Keys(obj, order) == SelectSeq(order, LAMBDA k : k \in DOMAIN obj)

RECURSIVE Concat(_)
Concat(ss) == IF ss = << >> THEN << >> ELSE Head(ss) \o Concat(Tail(ss))

\* Collation order of the characters of the model (white space and
\* punctuation before digits before letters; a letter and its capital share
\* a primary rank).
Collation == <<"\t", "\n", " ", "-", "/", "+">> \o Digits \o LowerCase

RankOf == [c \in {Collation[i] : i \in 1..Len(Collation)} |->
             CHOOSE i \in 1..Len(Collation) : Collation[i] = c]

PrimaryRank(c) ==
    LET l == ToLowerChar(c)
    IN  IF l \in DOMAIN RankOf THEN RankOf[l] ELSE Len(Collation) + 1

IsUpper(c) == c \in DOMAIN LowerOf

\* a.localeCompare(b): -1, 0 or 1.  Primary difference first (shorter text
\* first when one is a prefix of the other), then lower case before upper
\* case at the first position where the case differs.
localeCompare(a, b) ==
    LET n == IF Len(a) < Len(b) THEN Len(a) ELSE Len(b)
        pdiff == {i \in 1..n : PrimaryRank(a[i]) # PrimaryRank(b[i])}
        cdiff == {i \in 1..n : a[i] # b[i]}
    IN  IF pdiff # {}
        THEN IF PrimaryRank(a[SetMin(pdiff)]) < PrimaryRank(b[SetMin(pdiff)])
             THEN -1 ELSE 1
        ELSE IF Len(a) # Len(b) THEN (IF Len(a) < Len(b) THEN -1 ELSE 1)
        ELSE IF cdiff # {}
        THEN IF IsUpper(b[SetMin(cdiff)]) THEN -1 ELSE 1
        ELSE 0

\* arr.sort((a, b) => a.name.localeCompare(b.name)); the sort is stable
RECURSIVE SortByName(_)
SortByName(arr) ==
    IF arr = << >> THEN << >>
    ELSE LET front == SortByName(SubSeq(arr, 1, Len(arr) - 1))
             x == arr[Len(arr)]
             keep == {i \in 1..Len(front) : localeCompare(front[i].name, x.name) <= 0}
             k == IF keep = {} THEN 0 ELSE SetMax(keep)
         IN  SubSeq(front, 1, k) \o <<x>> \o SubSeq(front, k + 1, Len(front))

\* set.add(x) on a Set kept in insertion order
SetAdd(seq, x) == IF x \in Range(seq) THEN seq ELSE Append(seq, x)

RECURSIVE SetAddAll(_, _)
SetAddAll(seq, xs) ==
    IF xs = << >> THEN seq ELSE SetAddAll(SetAdd(seq, Head(xs)), Tail(xs))

\* ------------------------------------------------------------------------
\* SEARCH FUNCTIONALITY
\* ------------------------------------------------------------------------
EmptyResults == [teachers |-> << >>, classes |-> << >>, subjects |-> << >>]

\* searchTeachers without the filter step
searchTeachersUnfiltered(query, teacherDetails, f) ==
    LET names == Keys(teacherDetails, TeacherOrder)
        hit(name) == Includes(ToLowerCase(name), query)
        found == SelectSeq(names, hit)
        teachers == [i \in 1..Len(found) |->
                       [name |-> found[i],
                        subjects |-> teacherDetails[found[i]].subjects,
                        periodCount |-> teacherDetails[found[i]].periodCount,
                        schedule |-> teacherDetails[found[i]].schedule]]
    IN  SortByName(teachers)

searchTeachers(query, teacherDetails, f) ==
    LET names == Keys(teacherDetails, TeacherOrder)
        hit(name) == /\ Includes(ToLowerCase(name), query)
                     /\ applyTeacherFilters(name, teacherDetails[name], f)
        found == SelectSeq(names, hit)
        teachers == [i \in 1..Len(found) |->
                       [name |-> found[i],
                        subjects |-> teacherDetails[found[i]].subjects,
                        periodCount |-> teacherDetails[found[i]].periodCount,
                        schedule |-> teacherDetails[found[i]].schedule]]
    IN  SortByName(teachers)

getDaysForClass(className, timetable) ==
    SelectSeq(Keys(timetable, DayOrder), LAMBDA day : className \in DOMAIN timetable[day])

\* the (day, className) pairs in the order of the two nested loops
DayClassPairs(timetable) ==
    LET days == Keys(timetable, DayOrder)
    IN  Concat([i \in 1..Len(days) |->
            LET cs == Keys(timetable[days[i]], ClassOrder)
            IN  [j \in 1..Len(cs) |-> [day |-> days[i], className |-> cs[j]]]])

\* searchClasses comparing the class name as it is written
searchClassesCaseSensitive(query, timetable, f) ==
    LET pairs == DayClassPairs(timetable)
        \* the pair is the first one of its class name: classSet does not hold it yet
        first(i) == \A j \in 1..(i - 1) : pairs[j].className # pairs[i].className
        idx == {i \in 1..Len(pairs) :
                   /\ Includes(pairs[i].className, query)
                   /\ first(i)
                   /\ applyClassFilters(pairs[i].className, timetable, f)}
        RECURSIVE pick(_)
        pick(i) == IF i > Len(pairs) THEN << >>
                   ELSE IF i \in idx
                   THEN <<[name |-> pairs[i].className,
                           days |-> getDaysForClass(pairs[i].className, timetable)]>>
                        \o pick(i + 1)
                   ELSE pick(i + 1)
    IN  SortByName(pick(1))

searchClasses(query, timetable, f) ==
    LET pairs == DayClassPairs(timetable)
        \* the pair is the first one of its class name: classSet does not hold it yet
        first(i) == \A j \in 1..(i - 1) : pairs[j].className # pairs[i].className
        idx == {i \in 1..Len(pairs) :
                   /\ Includes(ToLowerCase(pairs[i].className), query)
                   /\ first(i)
                   /\ applyClassFilters(pairs[i].className, timetable, f)}
        RECURSIVE pick(_)
        pick(i) == IF i > Len(pairs) THEN << >>
                   ELSE IF i \in idx
                   THEN <<[name |-> pairs[i].className,
                           days |-> getDaysForClass(pairs[i].className, timetable)]>>
                        \o pick(i + 1)
                   ELSE pick(i + 1)
    IN  SortByName(pick(1))

\* the matching subject tokens, a token counted once for a period
SubjectHitsOncePerPeriod(query, timetable) ==
    LET pairs == DayClassPairs(timetable)
        ofPeriod(className, period) ==
            IF period # Free /\ period[1].subject # S0
            THEN LET parts == Split(period[1].subject, "/")
                     subjects == [k \in 1..Len(parts) |-> Trim(parts[k])]
                     matching == SetAddAll(<< >>, SelectSeq(subjects,
                                    LAMBDA sub : Includes(ToLowerCase(sub), query)))
                 IN  [k \in 1..Len(matching) |->
                        [subject |-> matching[k], teacher |-> period[1].teacher,
                         className |-> className]]
            ELSE << >>
        ofPair(pr) ==
            LET periods == timetable[pr.day][pr.className]
            IN  Concat([p \in 1..Len(periods) |-> ofPeriod(pr.className, periods[p])])
    IN  Concat([i \in 1..Len(pairs) |-> ofPair(pairs[i])])

\* the matching subject tokens in the order of the nested loops of
\* searchSubjects: one element per (day, class, period, token) that matches
SubjectHits(query, timetable) ==
    LET pairs == DayClassPairs(timetable)
        ofPeriod(className, period) ==
            IF period # Free /\ period[1].subject # S0
            THEN LET parts == Split(period[1].subject, "/")
                     subjects == [k \in 1..Len(parts) |-> Trim(parts[k])]
                     matching == SelectSeq(subjects,
                                    LAMBDA sub : Includes(ToLowerCase(sub), query))
                 IN  [k \in 1..Len(matching) |->
                        [subject |-> matching[k], teacher |-> period[1].teacher,
                         className |-> className]]
            ELSE << >>
        ofPair(pr) ==
            LET periods == timetable[pr.day][pr.className]
            IN  Concat([p \in 1..Len(periods) |-> ofPeriod(pr.className, periods[p])])
    IN  Concat([i \in 1..Len(pairs) |-> ofPair(pairs[i])])

\* the body of subjects.forEach that adds the period's teacher string whole
AddSubjectHitWholeTeacher(subjectMap, h) ==
    LET withKey == IF \E i \in 1..Len(subjectMap) : subjectMap[i].name = h.subject
                   THEN subjectMap
                   ELSE Append(subjectMap,
                               [name |-> h.subject, teachers |-> << >>,
                                classes |-> << >>, occurrences |-> 0])
        k == CHOOSE i \in 1..Len(withKey) : withKey[i].name = h.subject
        ts == IF h.teacher # S0 THEN <<h.teacher>> ELSE << >>
    IN  [withKey EXCEPT ![k] =
            [name |-> @.name,
             teachers |-> SetAddAll(@.teachers, ts),
             classes |-> SetAdd(@.classes, h.className),
             occurrences |-> @.occurrences + 1]]

\* the body of subjects.forEach for one matching token, on the subjectMap
\* (a sequence of subject data in insertion order)
AddSubjectHit(subjectMap, h) ==
    LET withKey == IF \E i \in 1..Len(subjectMap) : subjectMap[i].name = h.subject
                   THEN subjectMap
                   ELSE Append(subjectMap,
                               [name |-> h.subject, teachers |-> << >>,
                                classes |-> << >>, occurrences |-> 0])
        k == CHOOSE i \in 1..Len(withKey) : withKey[i].name = h.subject
        parts == Split(h.teacher, "/")
        ts == IF h.teacher # S0 THEN [i \in 1..Len(parts) |-> Trim(parts[i])]
              ELSE << >>
    IN  [withKey EXCEPT ![k] =
            [name |-> @.name,
             teachers |-> SetAddAll(@.teachers, ts),
             classes |-> SetAdd(@.classes, h.className),
             occurrences |-> @.occurrences + 1]]

RECURSIVE CollectSubjects(_, _)
CollectSubjects(subjectMap, hits) ==
    IF hits = << >> THEN subjectMap
    ELSE CollectSubjects(AddSubjectHit(subjectMap, Head(hits)), Tail(hits))

\* searchSubjects that returns the subjects in the order they were found
searchSubjectsUnsorted(query, timetable, f) ==
    LET subjectMap == CollectSubjects(<< >>, SubjectHits(query, timetable))
    IN  SelectSeq(subjectMap, LAMBDA subject : applySubjectFilters(subject, f))

searchSubjects(query, timetable, f) ==
    LET subjectMap == CollectSubjects(<< >>, SubjectHits(query, timetable))
    IN  SortByName(SelectSeq(subjectMap, LAMBDA subject : applySubjectFilters(subject, f)))

\* performSearch without the minimum-length return
performSearchNoMin(query, allData, f) ==
    LET normalizedQuery == Trim(ToLowerCase(query))
    IN  IF "timetable" \notin DOMAIN allData \/ "teacherDetails" \notin DOMAIN allData
        THEN EmptyResults
        ELSE [teachers |-> searchTeachers(normalizedQuery, allData.teacherDetails, f),
              classes |-> searchClasses(normalizedQuery, allData.timetable, f),
              subjects |-> searchSubjects(normalizedQuery, allData.timetable, f)]

\* performSearch that gives up only when both parts of the data are absent
performSearchEitherPart(query, allData, f) ==
    LET normalizedQuery == Trim(ToLowerCase(query))
        hasTimetable == "timetable" \in DOMAIN allData
        hasTeachers == "teacherDetails" \in DOMAIN allData
    IN  IF Len(normalizedQuery) < MIN_SEARCH_LENGTH THEN EmptyResults
        ELSE [teachers |-> IF hasTeachers
                           THEN searchTeachers(normalizedQuery, allData.teacherDetails, f)
                           ELSE << >>,
              classes |-> IF hasTimetable
                          THEN searchClasses(normalizedQuery, allData.timetable, f)
                          ELSE << >>,
              subjects |-> IF hasTimetable
                           THEN searchSubjects(normalizedQuery, allData.timetable, f)
                           ELSE << >>]

\* performSearch(query): the value it assigns to searchState.results, with
\* state.allData and searchState.filters as arguments
performSearch(query, allData, f) ==
    LET normalizedQuery == Trim(ToLowerCase(query))
    IN  IF Len(normalizedQuery) < MIN_SEARCH_LENGTH THEN EmptyResults
        ELSE IF "timetable" \notin DOMAIN allData \/ "teacherDetails" \notin DOMAIN allData
        THEN EmptyResults
        ELSE [teachers |-> searchTeachers(normalizedQuery, allData.teacherDetails, f),
              classes |-> searchClasses(normalizedQuery, allData.timetable, f),
              subjects |-> searchSubjects(normalizedQuery, allData.timetable, f)]

\* ------------------------------------------------------------------------
\* Timetable data (state.allData).  Eight periods a day.
\* ------------------------------------------------------------------------
Math == <<"M","a","t","h">>
Eng == <<"E","n","g">>
PhyChem == <<"P","h","y","/","C","h","e","m">>
Phy == <<"P","h","y">>
Ann == <<"A","n","n">>
Bob == <<"B","o","b">>
AB == <<"A","/","B">>
C6A == <<"6","A">>
C6B == <<"6","B">>
MathLab == <<"M","a","t","h"," ","L","a","b">>

Slot(subject, teacher) == <<[subject |-> subject, teacher |-> teacher]>>

\* the map {p: true, ...} of a teacher's occupied periods
Occupied(ps) == [p \in ps |-> TRUE]

SampleTimetable ==
    ("Monday" :> (C6B :> <<Free, Free, Free, Slot(PhyChem, AB), Free, Free, Free, Free>>
               @@ C6A :> <<Slot(Math, Ann), Slot(Math, Ann), Slot(Eng, Ann),
                           Free, Free, Free, Free, Free>>))
    @@
    ("Tuesday" :> (C6A :> <<Free, Free, Free, Slot(Math, Bob), Free, Free, Free, Free>>
                @@ MathLab :> <<Free, Free, Free, Free, Free, Free, Free, Slot(Phy, <<"A">>)>>))

SampleTeacherDetails ==
    (Bob :> [subjects |-> <<Math>>, periodCount |-> 1,
             schedule |-> ("Monday" :> Occupied({}) @@ "Tuesday" :> Occupied({3}))])
    @@
    (Ann :> [subjects |-> <<Math, Eng>>, periodCount |-> 3,
             schedule |-> ("Monday" :> Occupied({0, 1, 2}))])
    @@
    (<<"A">> :> [subjects |-> <<Phy, <<"C","h","e","m">> >>, periodCount |-> 2,
                 schedule |-> ("Monday" :> Occupied({3}) @@ "Tuesday" :> Occupied({7}))])
    @@
    (<<"B">> :> [subjects |-> <<Phy, <<"C","h","e","m">> >>, periodCount |-> 1,
                 schedule |-> ("Monday" :> (3 :> TRUE @@ 5 :> FALSE))])

SampleData == [timetable |-> SampleTimetable, teacherDetails |-> SampleTeacherDetails]

\* A second data set, four periods a day: a class with a day of free periods
\* only, a teacher with a false marker and one with an empty day.
SmallTimetable ==
    ("Monday" :> (C6A :> <<Free, Slot(Math, Ann), Free, Free>>
               @@ MathLab :> <<Slot(Phy, <<"A">>), Free, Free, Free>>))
    @@
    ("Tuesday" :> (C6A :> <<Free, Free, Free, Free>>))

SmallTeacherDetails ==
    (Ann :> [subjects |-> <<Math>>, periodCount |-> 1,
             schedule |-> ("Monday" :> (1 :> TRUE @@ 2 :> FALSE))])
    @@
    (<<"A">> :> [subjects |-> <<Phy>>, periodCount |-> 1,
                 schedule |-> ("Monday" :> Occupied({0}) @@ "Tuesday" :> Occupied({}))])

SmallData == [timetable |-> SmallTimetable, teacherDetails |-> SmallTeacherDetails]

\* A third data set, four periods a day: composite subjects with a repeated
\* token and with blanks around the tokens, a teacher string with a blank
\* after the slash, and a class with a day of free periods only.
Chem == <<"C","h","e","m">>
PhyPhy == <<"P","h","y","/","P","h","y">>
PhyBlankChem == <<"P","h","y"," ","/"," ","C","h","e","m">>
ABlankB == <<"A","/"," ","B">>

CompositeTimetable ==
    ("Monday" :> (C6B :> <<Free, Slot(Chem, Bob), Free, Free>>
               @@ C6A :> <<Slot(PhyPhy, <<"A">>), Slot(PhyBlankChem, ABlankB), Free, Free>>))
    @@
    ("Tuesday" :> (C6A :> <<Free, Free, Free, Free>>
                @@ C6B :> <<Slot(PhyChem, AB), Free, Free, Free>>))

CompositeTeacherDetails ==
    (Bob :> [subjects |-> <<Chem>>, periodCount |-> 1,
             schedule |-> ("Monday" :> Occupied({1}))])
    @@
    (<<"B">> :> [subjects |-> <<Phy, Chem>>, periodCount |-> 2,
                 schedule |-> ("Monday" :> Occupied({1}) @@ "Tuesday" :> Occupied({0}))])
    @@
    (<<"A">> :> [subjects |-> <<Phy, Chem>>, periodCount |-> 3,
                 schedule |-> ("Monday" :> Occupied({0, 1}) @@ "Tuesday" :> Occupied({0}))])

CompositeData ==
    [timetable |-> CompositeTimetable, teacherDetails |-> CompositeTeacherDetails]

\* state.allData not loaded, or loaded in part: no data at all, the timetable
\* only, the teacher details only
NoData == << >>

TimetableOnly == [timetable |-> SampleTimetable]

TeacherDetailsOnly == [teacherDetails |-> SampleTeacherDetails]

PartialData == {NoData, TimetableOnly, TeacherDetailsOnly}

\* ------------------------------------------------------------------------
\* SEARCH STATE
\* ------------------------------------------------------------------------
VARIABLES
    query,          \* searchState.query
    filters,        \* searchState.filters; periodRange is a reference into heap
    heap,           \* the periodRange objects: reference |-> [start, end]
    results,        \* searchState.results
    history,        \* searchState.history
    debounceTimer,  \* searchState.debounceTimer: 0 (null) or a timer handle
    pending,        \* the armed timers: [id, query], query being the
                    \* string the callback closes over
    stored,         \* localStorage[STORAGE_KEY], as the list it deserializes to
    storage,        \* localStorage: "ok", "full" (setItem throws) or
                    \* "disabled" (getItem and setItem throw)
    allData,        \* state.allData
    modalOpen,      \* the search modal has the class 'active'
    now,            \* Date.now()
    calls,          \* the strings of the handleSearchInput calls so far, in order
    loaded,         \* the history that loadSearchHistory found at initialization
    superseded,     \* calls followed by a later call while their timer was pending
    timerRuns,      \* the runs of the debounce callback
    rescanned,      \* calls with an armed timer whose string handleFilterChange
                    \* or resetFilters has scanned
    queryCall,      \* the call searchState.query comes from; 0: none
    sinceClose,     \* closeSearchModal has run, and no setQuery/applyHistoryItem since
    container,      \* the content of the element search-results-container
    closedOver,     \* calls whose timer was armed when closeSearchModal ran
                    \* and is still armed
    thrown,         \* the functions that have thrown an exception nothing caught
    worker,         \* the service worker's state: "installing", "installed",
                    \* "activating", "activated" or "redundant"
    chain,          \* the position in the promise chain passed to
                    \* event.waitUntil by the handler that is running
    cacheStorage,   \* caches: cache name |-> the set of cached request URLs
    offline,        \* the URLs that cannot be fetched
    skipWaiting,    \* self.skipWaiting() was called
    deleting,       \* the caches.delete calls of the activate handler in flight
    deleted,        \* the cache names the activate handler has deleted
    fetching        \* the bag of fetch events being handled: [request, cacheName, at],
                    \* at being the call the strategy function is waiting for

vars == <<query, filters, heap, results, history, debounceTimer, pending, stored,
          storage, allData, modalOpen, now, calls, loaded, superseded, timerRuns, rescanned,
          queryCall, sinceClose, container, closedOver, thrown,
          worker, chain, cacheStorage, offline, skipWaiting, deleting, deleted, fetching>>

searchState ==
    <<query, filters, heap, results, history, debounceTimer, pending, stored,
      storage, allData, modalOpen, now, calls, loaded, superseded, timerRuns, rescanned,
      queryCall, sinceClose, container, closedOver>>

searchVars == <<searchState, thrown>>

swVars == <<worker, chain, cacheStorage, offline, skipWaiting, deleting, deleted, fetching>>

\* a FilterSet with its periodRange reference followed
FilterValue(fl, hp) == [fl EXCEPT !.periodRange = hp[fl.periodRange]]

\* stored texts that JSON.parse accepts and that are not arrays: null, a
\* number and an object.  The value is written as a list of one marker, so
\* that it differs from every list of history entries.
JsonNull == <<[json |-> "null"]>>
NonArrays == {JsonNull, <<[json |-> "5"]>>, <<[json |-> "{}"]>>}

\* Array.isArray(h)
IsArray(h) == h \notin NonArrays

\* The periodRange objects in use, in the order in which searchState reaches
\* them: from the live filters, then from the history entries.  A history
\* that is not an array holds no entries and so no periodRange object.
Reached(fl, h) ==
    LET refs == <<fl.periodRange>>
                \o (IF IsArray(h) THEN [i \in 1..Len(h) |-> h[i].filters.periodRange]
                    ELSE << >>)
        RECURSIVE firsts(_)
        firsts(i) == IF i > Len(refs) THEN << >>
                     ELSE IF \E j \in 1..(i - 1) : refs[j] = refs[i] THEN firsts(i + 1)
                     ELSE <<refs[i]>> \o firsts(i + 1)
    IN  firsts(1)

\* Garbage collection: objects that searchState no longer reaches are dropped
\* and the others are numbered in the order of Reached.  Which objects are
\* shared is kept; the numbers themselves mean nothing to the program.
Collect(fl, h, hp) ==
    LET live == Reached(fl, h)
        ref(r) == CHOOSE k \in 1..Len(live) : live[k] = r
    IN  [filters |-> [fl EXCEPT !.periodRange = ref(@)],
         history |-> IF IsArray(h)
                     THEN [i \in 1..Len(h) |-> [h[i] EXCEPT !.filters.periodRange = ref(@)]]
                     ELSE h,
         heap |-> [k \in 1..Len(live) |-> hp[live[k]]]]

\* a history list with the periodRange references followed
HistoryValue(h, hp) ==
    [i \in 1..Len(h) |-> [h[i] EXCEPT !.filters = FilterValue(h[i].filters, hp)]]

\* ------------------------------------------------------------------------
\* SEARCH HISTORY MANAGEMENT
\* ------------------------------------------------------------------------
Take(seq, n) == SubSeq(seq, 1, IF Len(seq) < n THEN Len(seq) ELSE n)

\* JSON.stringify(searchState.history.slice(0, MAX_HISTORY_ITEMS)): the text
\* holds the values of the entries, not their object identities
\* a failing setItem is caught: the stored text stays as it was
saveSearchHistory(h, hp) ==
    IF storage = "ok" THEN HistoryValue(Take(h, MAX_HISTORY_ITEMS), hp) ELSE stored

\* a stored text that JSON.parse rejects
Corrupt == <<[unparsable |-> TRUE]>>

\* loadSearchHistory that assigns the stored text as it is
loadSearchHistoryUnparsed(text, hp) == [history |-> text, heap |-> hp]

\* JSON.parse(stored): every entry gets a periodRange object of its own,
\* allocated after the objects of hp.  When getItem or JSON.parse throws,
\* the catch clause sets the history to [].  A parsed value that is not an
\* array is assigned as it is.
loadSearchHistory(text, hp) ==
    IF storage = "disabled" \/ text = Corrupt
    THEN [history |-> << >>, heap |-> hp]
    ELSE IF text \in NonArrays
    THEN [history |-> text, heap |-> hp]
    ELSE [history |-> [k \in 1..Len(text) |->
                         [text[k] EXCEPT !.filters.periodRange = Len(hp) + k]],
          heap |-> hp \o [k \in 1..Len(text) |-> text[k].filters.periodRange]]

\* addToHistory that removes the earlier entry of the query only when it is
\* the first entry
addToHistoryDedupFront(h, q, fl, t) ==
    IF q = S0 \/ Len(Trim(q)) < MIN_SEARCH_LENGTH THEN h
    ELSE LET kept == IF h # << >> /\ h[1].query = Trim(q) THEN Tail(h) ELSE h
         IN  Take(<<[query |-> Trim(q), timestamp |-> t, filters |-> fl]>> \o kept,
                  MAX_HISTORY_ITEMS)

\* addToHistory without the size limit
addToHistoryNoLimit(h, q, fl, t) ==
    IF q = S0 \/ Len(Trim(q)) < MIN_SEARCH_LENGTH THEN h
    ELSE <<[query |-> Trim(q), timestamp |-> t, filters |-> fl]>>
         \o SelectSeq(h, LAMBDA item : item.query # Trim(q))

\* addToHistory(query) at time t with searchState.filters = fl: the new
\* searchState.history.  The spread copy of fl shares its periodRange object.
addToHistory(h, q, fl, t) ==
    IF q = S0 \/ Len(Trim(q)) < MIN_SEARCH_LENGTH THEN h
    ELSE LET trimmedQuery == Trim(q)
             kept == SelectSeq(h, LAMBDA item : item.query # trimmedQuery)
         IN  Take(<<[query |-> trimmedQuery, timestamp |-> t, filters |-> fl]>> \o kept,
                  MAX_HISTORY_ITEMS)

\* searchState.history.splice(index, 1)
Splice1(h, index) ==
    LET len == Len(h)
        start == IF index < 0 THEN (IF len + index < 0 THEN 0 ELSE len + index)
                 ELSE IF index > len THEN len ELSE index
    IN  SubSeq(h, 1, start) \o SubSeq(h, start + 2, len)

\* ------------------------------------------------------------------------
\* Inputs
\* ------------------------------------------------------------------------
\* the strings typed into the search input
Queries == { <<"a">>, <<"a"," ">>, <<" ">> }

\* the (filterName, value) pairs of the filter controls
FilterInputs ==
    { <<"day", "Monday">>, <<"periodStart", <<"1">> >> }

\* the indexes passed to applyHistoryItem and removeHistoryItem: the first
\* two entries, the last one counted from the end, and one past the end
HistoryIndexes == {0 - 1, 0, 1, Len(history)}

\* histories left in localStorage by earlier sessions: none, or ten entries
\* (the oldest being the query "a")
StoredQueries ==
    << <<"h","1">>, <<"h","2">>, <<"h","3">>, <<"h","4">>, <<"h","5">>,
       <<"h","6">>, <<"h","7">>, <<"h","8">>, <<"h","9">>, <<"a">> >>

StoredFilters(k) ==
    IF k = 1
    THEN [day |-> "Monday", periodRange |-> [start |-> <<"3">>, end |-> <<"5">>],
          subject |-> S0, teacherAvailability |-> TRUE]
    ELSE EmptyFilters

StoredHistory(n) ==
    [k \in 1..n |-> [query |-> StoredQueries[k], timestamp |-> 0 - k * DEBOUNCE_DELAY,
                     filters |-> StoredFilters(k)]]

StoredHistories == { StoredHistory(0), StoredHistory(MAX_HISTORY_ITEMS) }

\* the strings typed and the filter controls used in the history scenarios
HistoryQueries == { <<"a">>, <<"M">> }
HistoryFilterInputs == { <<"periodStart", <<"1">> >> }

\* ------------------------------------------------------------------------
\* RENDERING.  The content of the results container: nothing, the "No
\* results found" notice, or the sections that list the results.
\* ------------------------------------------------------------------------
NoMarkup == [kind |-> "", results |-> EmptyResults]

\* renderSearchResults(): the content written for searchState.query q and
\* searchState.results r
renderSearchResults(q, r) ==
    IF Len(Trim(q)) < MIN_SEARCH_LENGTH THEN NoMarkup
    ELSE IF r.teachers = << >> /\ r.classes = << >> /\ r.subjects = << >>
    THEN [kind |-> "search-no-results", results |-> EmptyResults]
    ELSE [kind |-> "search-results-sections", results |-> r]

\* ------------------------------------------------------------------------
\* Initial state: the module state of search.js after initSearch
\* ------------------------------------------------------------------------
SearchInit(text, data, mode) ==
    LET parsed == loadSearchHistory(text, <<[start |-> S0, end |-> S0]>>)
    IN  /\ storage = mode
        /\ query = S0
        /\ filters = [day |-> "", periodRange |-> 1, subject |-> S0,
                      teacherAvailability |-> FALSE]
        /\ heap = parsed.heap
        /\ results = EmptyResults
        /\ history = parsed.history
        /\ debounceTimer = 0
        /\ pending = {}
        /\ stored = text
        /\ allData = data
        /\ modalOpen = FALSE
        /\ now = 0
        /\ calls = << >>
        /\ loaded = text
        /\ superseded = {}
        /\ timerRuns = << >>
        /\ rescanned = {}
        /\ queryCall = 0
        /\ sinceClose = FALSE
        /\ container = NoMarkup
        /\ closedOver = {}
        /\ thrown = {}

\* the service worker when its install event is dispatched, with the caches
\* cs in the cache storage and the URLs off out of reach
SwInstalling(cs, off) ==
    /\ worker = "installing"
    /\ chain = "open"
    /\ cacheStorage = cs
    /\ offline = off
    /\ skipWaiting = FALSE
    /\ deleting = {}
    /\ deleted = {}
    /\ fetching = EmptyBag

InitStorage(text, data, mode) ==
    SearchInit(text, data, mode) /\ SwInstalling(<< >>, {})

InitWith(text, data) == InitStorage(text, data, "ok")

Init == InitWith(StoredHistory(0), SampleData)

HistoryInit == \E text \in StoredHistories : InitWith(text, SampleData)

\* ------------------------------------------------------------------------
\* DEBOUNCED SEARCH
\* ------------------------------------------------------------------------
Active(q) == Len(Trim(q)) >= MIN_SEARCH_LENGTH

\* ArmTimer without the clearTimeout
ArmTimerKeep(pend, handle, timer) == pend \cup {timer}

\* clearTimeout(searchState.debounceTimer) when the handle is set, then
\* setTimeout: the armed timers afterwards
ArmTimer(pend, handle, timer) ==
    {p \in pend : handle = 0 \/ p.id # handle} \cup {timer}

\* handleSearchInput that records the keystroke in the history at once
HandleSearchInputEager(q) ==
    LET c == Len(calls) + 1
        h == addToHistory(history, q, filters, now)
        gc == Collect(filters, h, heap)
    IN  /\ query' = q
        /\ pending' = ArmTimer(pending, debounceTimer, [id |-> c, query |-> q])
        /\ debounceTimer' = c
        /\ calls' = Append(calls, q)
        /\ superseded' = superseded \cup {p.id : p \in pending}
        /\ queryCall' = c
        /\ sinceClose' = FALSE
        /\ history' = gc.history
        /\ filters' = gc.filters
        /\ heap' = gc.heap
        /\ stored' = saveSearchHistory(h, heap)
        /\ closedOver' = closedOver \cap {p.id : p \in pending'}
        /\ UNCHANGED <<swVars, thrown, container, storage, results, allData, modalOpen,
                       now, loaded, timerRuns, rescanned>>

\* handleSearchInput(q)
HandleSearchInput(q) ==
    LET c == Len(calls) + 1
    IN  /\ query' = q
        /\ pending' = ArmTimer(pending, debounceTimer, [id |-> c, query |-> q])
        /\ debounceTimer' = c
        /\ calls' = Append(calls, q)
        /\ superseded' = superseded \cup {p.id : p \in pending}
        /\ queryCall' = c
        /\ sinceClose' = FALSE
        /\ closedOver' = closedOver \cap {p.id : p \in pending'}
        /\ UNCHANGED <<swVars, thrown, container, storage, filters, heap, results, history,
                       stored, allData, modalOpen, now, loaded, timerRuns, rescanned>>

\* the callback with an addToHistory that keeps its change only when the
\* write succeeds
TimerFireSavedOnly(p) ==
    LET q == p.query
        c == p.id
        t == now + DEBOUNCE_DELAY
        valid == Len(Trim(q)) >= MIN_SEARCH_LENGTH
        h == IF valid /\ storage = "ok" THEN addToHistory(history, q, filters, t)
             ELSE history
        gc == Collect(filters, h, heap)
    IN  /\ p \in pending
        /\ pending' = pending \ {p}
        /\ now' = t
        /\ results' = performSearch(q, allData, FilterValue(filters, heap))
        /\ history' = gc.history
        /\ filters' = gc.filters
        /\ heap' = gc.heap
        /\ stored' = IF valid THEN saveSearchHistory(h, heap) ELSE stored
        /\ timerRuns' = Append(timerRuns,
                               [call |-> c, query |-> q, added |-> valid, timestamp |-> t])
        /\ rescanned' = rescanned \ {c}
        /\ container' = renderSearchResults(query, results')
        /\ closedOver' = closedOver \ {c}
        /\ UNCHANGED <<swVars, thrown, storage, query, debounceTimer, allData, modalOpen,
                       calls, loaded, superseded, queryCall, sinceClose>>

\* the callback of the armed timer p runs, DEBOUNCE_DELAY after it was armed:
\* performSearch(query), then addToHistory(query) for a valid query
TimerFire(p) ==
    LET q == p.query
        c == p.id
        t == now + DEBOUNCE_DELAY
        valid == Len(Trim(q)) >= MIN_SEARCH_LENGTH
        throws == valid /\ ~IsArray(history)
        h == IF valid /\ ~throws THEN addToHistory(history, q, filters, t) ELSE history
        gc == Collect(filters, h, heap)
    IN  /\ p \in pending
        /\ pending' = pending \ {p}
        /\ now' = t
        /\ results' = performSearch(q, allData, FilterValue(filters, heap))
        /\ history' = gc.history
        /\ filters' = gc.filters
        /\ heap' = gc.heap
        /\ stored' = IF valid /\ ~throws THEN saveSearchHistory(h, heap) ELSE stored
        /\ timerRuns' = Append(timerRuns,
                               [call |-> c, query |-> q, added |-> valid /\ ~throws,
                                timestamp |-> t])
        /\ rescanned' = rescanned \ {c}
        /\ container' = renderSearchResults(query, results')
        /\ closedOver' = closedOver \ {c}
        /\ thrown' = IF throws THEN thrown \cup {"addToHistory"} ELSE thrown
        /\ UNCHANGED <<swVars, storage, query, debounceTimer, allData, modalOpen, calls,
                       loaded, superseded, queryCall, sinceClose>>

\* handleFilterChange that stores the value and leaves the scan to the timer
HandleFilterChangeNoScan(filterName, value) ==
    LET hp == IF filterName = "periodStart"
              THEN [heap EXCEPT ![filters.periodRange].start = value]
              ELSE IF filterName = "periodEnd"
              THEN [heap EXCEPT ![filters.periodRange].end = value]
              ELSE heap
        fl == IF filterName \in {"periodStart", "periodEnd"} THEN filters
              ELSE [filters EXCEPT ![filterName] = value]
    IN  /\ heap' = hp
        /\ filters' = fl
        /\ UNCHANGED <<swVars, thrown, container, closedOver, storage, query, results,
                       history, debounceTimer, pending, stored, allData, modalOpen, now,
                       calls, loaded, superseded, timerRuns, rescanned, queryCall,
                       sinceClose>>

\* handleFilterChange(filterName, value)
HandleFilterChange(filterName, value) ==
    LET hp == IF filterName = "periodStart"
              THEN [heap EXCEPT ![filters.periodRange].start = value]
              ELSE IF filterName = "periodEnd"
              THEN [heap EXCEPT ![filters.periodRange].end = value]
              ELSE heap
        fl == IF filterName \in {"periodStart", "periodEnd"} THEN filters
              ELSE [filters EXCEPT ![filterName] = value]
    IN  /\ heap' = hp
        /\ filters' = fl
        /\ results' = IF Active(query)
                      THEN performSearch(query, allData, FilterValue(fl, hp))
                      ELSE results
        /\ rescanned' = IF Active(query) /\ queryCall \in {p.id : p \in pending}
                        THEN rescanned \cup {queryCall}
                        ELSE rescanned
        /\ container' = IF Active(query) THEN renderSearchResults(query, results')
                        ELSE container
        /\ UNCHANGED <<swVars, thrown, closedOver, storage, query, history, debounceTimer,
                       pending, stored, allData, modalOpen, now, calls, loaded, superseded,
                       timerRuns, queryCall, sinceClose>>

\* resetFilters that leaves the day facet as it is
ResetFiltersKeepDay ==
    LET hp == Append(heap, [start |-> S0, end |-> S0])
        fl == [day |-> filters.day, periodRange |-> Len(hp), subject |-> S0,
               teacherAvailability |-> FALSE]
        gc == Collect(fl, history, hp)
    IN  /\ heap' = gc.heap
        /\ filters' = gc.filters
        /\ history' = gc.history
        /\ results' = IF Active(query)
                      THEN performSearch(query, allData, FilterValue(fl, hp))
                      ELSE results
        /\ rescanned' = IF Active(query) /\ queryCall \in {p.id : p \in pending}
                        THEN rescanned \cup {queryCall}
                        ELSE rescanned
        /\ container' = IF Active(query) THEN renderSearchResults(query, results')
                        ELSE container
        /\ UNCHANGED <<swVars, thrown, closedOver, storage, query, debounceTimer, pending,
                       stored, allData, modalOpen, now, calls, loaded, superseded,
                       timerRuns, queryCall, sinceClose>>

\* resetFilters()
ResetFilters ==
    LET hp == Append(heap, [start |-> S0, end |-> S0])
        fl == [day |-> "", periodRange |-> Len(hp), subject |-> S0,
               teacherAvailability |-> FALSE]
        gc == Collect(fl, history, hp)
    IN  /\ heap' = gc.heap
        /\ filters' = gc.filters
        /\ history' = gc.history
        /\ results' = IF Active(query)
                      THEN performSearch(query, allData, FilterValue(fl, hp))
                      ELSE results
        /\ rescanned' = IF Active(query) /\ queryCall \in {p.id : p \in pending}
                        THEN rescanned \cup {queryCall}
                        ELSE rescanned
        /\ container' = IF Active(query) THEN renderSearchResults(query, results')
                        ELSE container
        /\ UNCHANGED <<swVars, thrown, closedOver, storage, query, debounceTimer, pending,
                       stored, allData, modalOpen, now, calls, loaded, superseded,
                       timerRuns, queryCall, sinceClose>>

\* ------------------------------------------------------------------------
\* MODAL MANAGEMENT
\* ------------------------------------------------------------------------
\* openSearchModal(): the modal gets the class active, then
\* renderSearchHistory() reads searchState.history.length and calls
\* searchState.history.map, which throws when the history is not an array
OpenSearchModal ==
    /\ modalOpen' = TRUE
    /\ thrown' = IF IsArray(history) THEN thrown ELSE thrown \cup {"renderSearchHistory"}
    /\ UNCHANGED <<swVars, container, closedOver, storage, query, filters, heap,
                   results, history, debounceTimer, pending, stored, allData, now, calls,
                   loaded, superseded, timerRuns, rescanned, queryCall, sinceClose>>

\* closeSearchModal(), focused telling whether #global-search-input has the
\* focus before the call.  The last statement, globalSearchInput.focus(),
\* fires the focus listener of that element when it does not have the focus
\* yet: openSearchModal runs inside the call, which gives the modal the class
\* active again and calls renderSearchHistory.
CloseSearchModal(focused) ==
    /\ modalOpen' = ~focused
    /\ thrown' = IF ~focused /\ ~IsArray(history)
                 THEN thrown \cup {"renderSearchHistory"} ELSE thrown
    /\ query' = S0
    /\ results' = EmptyResults
    /\ queryCall' = 0
    /\ sinceClose' = TRUE
    /\ container' = renderSearchResults(query', results')
    /\ closedOver' = {p.id : p \in pending}
    /\ UNCHANGED <<swVars, storage, filters, heap, history, debounceTimer, pending,
                   stored, allData, now, calls, loaded, superseded, timerRuns, rescanned>>

\* ------------------------------------------------------------------------
\* History items
\* ------------------------------------------------------------------------
\* applyHistoryItem that restores the query and scans under the live filters
ApplyHistoryItemKeepFilters(index) ==
    IF index < 0 \/ index >= Len(history)
    THEN UNCHANGED vars
    ELSE LET item == history[index + 1]
         IN  /\ query' = item.query
             /\ results' = performSearch(item.query, allData,
                                         FilterValue(filters, heap))
             /\ queryCall' = 0
             /\ sinceClose' = FALSE
             /\ container' = renderSearchResults(query', results')
             /\ UNCHANGED <<swVars, thrown, closedOver, storage, filters, history, heap,
                            debounceTimer, pending, stored, allData, modalOpen, now, calls,
                            loaded, superseded, timerRuns, rescanned>>

\* applyHistoryItem that records the replayed query as a new search
ApplyHistoryItemToFront(index) ==
    IF ~IsArray(history) \/ index < 0 \/ index >= Len(history)
    THEN UNCHANGED vars
    ELSE LET item == history[index + 1]
             h == addToHistory(history, item.query, item.filters, now)
             gc == Collect(item.filters, h, heap)
         IN  /\ query' = item.query
             /\ filters' = gc.filters
             /\ history' = gc.history
             /\ heap' = gc.heap
             /\ stored' = saveSearchHistory(h, heap)
             /\ results' = performSearch(item.query, allData,
                                         FilterValue(item.filters, heap))
             /\ queryCall' = 0
             /\ sinceClose' = FALSE
             /\ container' = renderSearchResults(query', results')
             /\ UNCHANGED <<swVars, thrown, closedOver, storage, debounceTimer, pending,
                            allData, modalOpen, now, calls, loaded, superseded,
                            timerRuns, rescanned>>

\* applyHistoryItem(index); index counts from 0.  Reading an element of
\* null throws; a number or an object has no element at an index.
ApplyHistoryItem(index) ==
    IF history = JsonNull
    THEN /\ thrown' = thrown \cup {"applyHistoryItem"}
         /\ UNCHANGED <<swVars, searchState>>
    ELSE IF ~IsArray(history) \/ index < 0 \/ index >= Len(history)
    THEN UNCHANGED vars
    ELSE LET item == history[index + 1]
             gc == Collect(item.filters, history, heap)
         IN  /\ query' = item.query
             /\ filters' = gc.filters
             /\ history' = gc.history
             /\ heap' = gc.heap
             /\ results' = performSearch(item.query, allData,
                                         FilterValue(item.filters, heap))
             /\ queryCall' = 0
             /\ sinceClose' = FALSE
             /\ container' = renderSearchResults(query', results')
             /\ UNCHANGED <<swVars, thrown, closedOver, storage, debounceTimer, pending,
                            stored, allData, modalOpen, now, calls, loaded, superseded,
                            timerRuns, rescanned>>

\* removeHistoryItem(index); a value that is not an array has no splice
RemoveHistoryItem(index) ==
    IF ~IsArray(history)
    THEN /\ thrown' = thrown \cup {"removeHistoryItem"}
         /\ UNCHANGED <<swVars, searchState>>
    ELSE LET h == Splice1(history, index)
             gc == Collect(filters, h, heap)
         IN  /\ history' = gc.history
             /\ filters' = gc.filters
             /\ heap' = gc.heap
             /\ stored' = saveSearchHistory(h, heap)
             /\ UNCHANGED <<swVars, thrown, container, closedOver, storage, query, results,
                            debounceTimer, pending, allData, modalOpen, now, calls, loaded,
                            superseded, timerRuns, rescanned, queryCall, sinceClose>>

\* clearSearchHistory()
ClearSearchHistory ==
    /\ history' = << >>
    /\ filters' = Collect(filters, << >>, heap).filters
    /\ heap' = Collect(filters, << >>, heap).heap
    /\ stored' = saveSearchHistory(<< >>, heap)
    /\ UNCHANGED <<swVars, thrown, container, closedOver, storage, query, results,
                   debounceTimer, pending, allData, modalOpen, now, calls, loaded,
                   superseded, timerRuns, rescanned, queryCall, sinceClose>>

\* ------------------------------------------------------------------------
\* Specification of the engine
\* ------------------------------------------------------------------------
Next ==
    \/ \E q \in Queries : Len(calls) < MaxCalls /\ HandleSearchInput(q)
    \/ \E p \in pending : TimerFire(p)
    \/ \E in \in FilterInputs : HandleFilterChange(in[1], in[2])
    \/ ResetFilters
    \/ OpenSearchModal
    \/ \E focused \in BOOLEAN : CloseSearchModal(focused)
    \/ \E index \in HistoryIndexes : ApplyHistoryItem(index)
    \/ \E index \in HistoryIndexes : RemoveHistoryItem(index)
    \/ ClearSearchHistory

Spec == Init /\ [][Next]_vars

\* ------------------------------------------------------------------------
\* Specification of the history scenarios: a session that starts from a
\* stored history (none, or a full one) and uses the handlers that read or
\* write searchState.history and the filters its entries hold.
\* ------------------------------------------------------------------------
HistoryNext ==
    \/ \E q \in HistoryQueries : Len(calls) < MaxCalls /\ HandleSearchInput(q)
    \/ \E p \in pending : TimerFire(p)
    \/ \E in \in HistoryFilterInputs : HandleFilterChange(in[1], in[2])
    \/ ResetFilters
    \/ \E index \in {0, Len(history)} : ApplyHistoryItem(index)

HistorySpec == HistoryInit /\ [][HistoryNext]_vars

\* ------------------------------------------------------------------------
\* Specification of the additions to an empty history: up to MaxAdds strings
\* are typed, two of them with the same trimmed query, each recorded when its
\* timer fires, with the period filter set in between.
\* ------------------------------------------------------------------------
DedupNext ==
    \/ \E q \in { <<"a">>, <<"M">>, <<"a"," ">> } :
          Len(calls) < MaxAdds /\ HandleSearchInput(q)
    \/ \E p \in pending : TimerFire(p)
    \/ \E in \in HistoryFilterInputs : HandleFilterChange(in[1], in[2])

DedupSpec == InitWith(StoredHistory(0), SampleData) /\ [][DedupNext]_vars

\* ------------------------------------------------------------------------
\* Specification of the open-modal scenarios: the modal is opened and never
\* closed; queries are typed, timers fire, filters are set and reset and
\* history entries are replayed.
\* ------------------------------------------------------------------------
SessionNext ==
    \/ OpenSearchModal
    \/ \E q \in HistoryQueries : Len(calls) < MaxCalls /\ HandleSearchInput(q)
    \/ \E p \in pending : TimerFire(p)
    \/ \E in \in HistoryFilterInputs : HandleFilterChange(in[1], in[2])
    \/ ResetFilters
    \/ \E index \in {0, Len(history)} : ApplyHistoryItem(index)

SessionSpec == HistoryInit /\ [][SessionNext]_vars

\* ------------------------------------------------------------------------
\* Specification of the filter-control scenarios: a session that types
\* queries, sets the day and the period start, and resets the filters.
\* ------------------------------------------------------------------------
FacetNext ==
    \/ \E q \in Queries : Len(calls) < MaxCalls /\ HandleSearchInput(q)
    \/ \E p \in pending : TimerFire(p)
    \/ \E in \in FilterInputs : HandleFilterChange(in[1], in[2])
    \/ ResetFilters

FacetSpec == Init /\ [][FacetNext]_vars

\* ------------------------------------------------------------------------
\* Specification of the storage scenarios: localStorage works, is full or is
\* disabled, and holds no history, a full one or a text that does not parse;
\* the session uses the handlers that write the history.
\* ------------------------------------------------------------------------
StorageModes == {"ok", "full", "disabled"}

StorageTexts == StoredHistories \cup {Corrupt}

StorageInit ==
    \E text \in StorageTexts, mode \in StorageModes : InitStorage(text, SampleData, mode)

StorageNext ==
    \/ \E q \in HistoryQueries : Len(calls) < MaxCalls /\ HandleSearchInput(q)
    \/ \E p \in pending : TimerFire(p)
    \/ \E index \in {0, Len(history)} : RemoveHistoryItem(index)
    \/ ClearSearchHistory

StorageSpec == StorageInit /\ [][StorageNext]_vars

\* ------------------------------------------------------------------------
\* Specification of the loading scenarios: the storage key holds nothing, a
\* text that does not parse, a history of two entries, or a JSON value that
\* is not an array; the session uses the handlers that read or write the
\* history, and the reset of the filters.
\* ------------------------------------------------------------------------
LoadTexts == {StoredHistory(0), StoredHistory(2), Corrupt} \cup NonArrays

LoadInit == \E text \in LoadTexts : InitWith(text, SampleData)

LoadNext ==
    \/ OpenSearchModal
    \/ \E q \in { <<"a">>, <<" ">> } : Len(calls) < MaxCalls /\ HandleSearchInput(q)
    \/ \E p \in pending : TimerFire(p)
    \/ ResetFilters
    \/ \E index \in {0, 1} : RemoveHistoryItem(index)
    \/ \E index \in {0, 1} : ApplyHistoryItem(index)

LoadSpec == LoadInit /\ [][LoadNext]_vars

\* ------------------------------------------------------------------------
\* Specification of the scenarios without data: state.allData is absent or
\* lacks the timetable or the teacher details during the session.
\* ------------------------------------------------------------------------
DataInit == \E data \in PartialData : InitWith(StoredHistory(0), data)

DataNext ==
    \/ \E q \in Queries : Len(calls) < MaxCalls /\ HandleSearchInput(q)
    \/ \E p \in pending : TimerFire(p)
    \/ \E in \in FilterInputs : HandleFilterChange(in[1], in[2])
    \/ \E index \in {0, Len(history)} : ApplyHistoryItem(index)

DataSpec == DataInit /\ [][DataNext]_vars

\* ------------------------------------------------------------------------
\* Specification of the matching scenarios: queries that differ in case and
\* in surrounding blanks, typed and replayed from the history.
\* ------------------------------------------------------------------------
MatchTyped ==
    { <<"M","A","T","H">>, <<" ","m","a","t","h"," ">>, <<"M","a","t">>, <<"A","N","N">> }

MatchFilterInputs == { <<"day", "Monday">>, <<"subject", <<"P","H","Y">> >> }

MatchNext ==
    \/ \E q \in MatchTyped : Len(calls) < MaxCalls /\ HandleSearchInput(q)
    \/ \E p \in pending : TimerFire(p)
    \/ \E in \in MatchFilterInputs : HandleFilterChange(in[1], in[2])
    \/ \E index \in {0, Len(history)} : ApplyHistoryItem(index)

MatchSpec == Init /\ [][MatchNext]_vars

\* ------------------------------------------------------------------------
\* Specification of the scan scenarios: queries that select several names in
\* a bucket, typed over the sample and the composite data, with the subject
\* and the day filter.
\* ------------------------------------------------------------------------
ScanTyped == { <<"c","h","e","m">>, <<"h">>, <<"6">>, <<"b">> }

ScanFilterInputs == { <<"day", "Tuesday">>, <<"subject", <<"P","H","Y">> >> }

ScanInit == \E data \in {SampleData, CompositeData} : InitWith(StoredHistory(0), data)

ScanNext ==
    \/ \E q \in ScanTyped : Len(calls) < MaxCalls /\ HandleSearchInput(q)
    \/ \E p \in pending : TimerFire(p)
    \/ \E in \in ScanFilterInputs : HandleFilterChange(in[1], in[2])

ScanSpec == ScanInit /\ [][ScanNext]_vars

\* ------------------------------------------------------------------------
\* Specification of the filter scenarios: a session that finds the query "a"
\* in its stored history, replays it and works the filter controls over all
\* their values, on either data set.
\* ------------------------------------------------------------------------
PeriodInputs == { S0, <<"0">>, <<"1">>, <<"2">>, <<"3">>, <<"5">>, <<"9">>, <<"x">> }

WideFilterInputs ==
    {<<"day", d>> : d \in {"", "Monday", "Tuesday", "Sunday"}}
    \cup {<<"periodStart", v>> : v \in PeriodInputs}
    \cup {<<"periodEnd", v>> : v \in PeriodInputs}
    \cup {<<"subject", v>> : v \in {S0, <<"m","a">>, <<"P","H","Y">>}}
    \cup {<<"teacherAvailability", b>> : b \in BOOLEAN}

FilterStored ==
    <<[query |-> <<"a">>, timestamp |-> 0 - DEBOUNCE_DELAY, filters |-> EmptyFilters]>>

FilterInit == \E data \in {SampleData, SmallData} : InitWith(FilterStored, data)

FilterNext ==
    \/ \E index \in HistoryIndexes : ApplyHistoryItem(index)
    \/ \E in \in WideFilterInputs : HandleFilterChange(in[1], in[2])

FilterSpec == FilterInit /\ [][FilterNext]_vars

\* ------------------------------------------------------------------------
\* SERVICE WORKER (sw.js)
\* ------------------------------------------------------------------------
CACHE_NAME == "vpps-timetable-v1"
STATIC_CACHE_NAME == "vpps-static-v1"

STATIC_ASSETS ==
    { "./", "./index.html", "./manifest.webmanifest", "./icons/VPPS Full Logo only.png",
      "https://cdnjs.cloudflare.com/ajax/libs/html2canvas/1.4.1/html2canvas.min.js",
      "https://cdnjs.cloudflare.com/ajax/libs/jspdf/2.5.1/jspdf.umd.min.js",
      "https://cdn.jsdelivr.net/npm/lucide@latest/dist/umd/lucide.min.js",
      "https://fonts.googleapis.com/css2?family=Inter:wght@400;500;600;700;800&display=swap" }

\* caches.open(name): the cache is created when it does not exist
CachesOpen(cs, name) == IF name \in DOMAIN cs THEN cs ELSE cs @@ (name :> {})

\* cache.put(request, response) on the cache that caches.open(name) gave
CachePut(cs, name, url) ==
    IF name \in DOMAIN cs THEN [cs EXCEPT ![name] = @ \cup {url}] ELSE cs

\* caches.delete(name)
CachesDelete(cs, name) == [n \in DOMAIN cs \ {name} |-> cs[n]]

\* caches.match(request): a cache of the storage holds the request
CachesMatch(cs, url) == \E n \in DOMAIN cs : url \in cs[n]

\* the test of the activate handler that spares the timetable cache only
IsOldCacheButTimetable(cacheName) == cacheName # CACHE_NAME

\* the test of the activate handler on a cache name
IsOldCache(cacheName) == cacheName # CACHE_NAME /\ cacheName # STATIC_CACHE_NAME

\* install: caches.open(STATIC_CACHE_NAME)
InstallOpen ==
    /\ worker = "installing" /\ chain = "open"
    /\ cacheStorage' = CachesOpen(cacheStorage, STATIC_CACHE_NAME)
    /\ chain' = "addAll"
    /\ UNCHANGED <<searchVars, worker, offline, skipWaiting, deleting, deleted, fetching>>

\* install: cache.addAll(STATIC_ASSETS) stores all the assets, or rejects and
\* stores none when one of them cannot be fetched
InstallAddAll ==
    /\ worker = "installing" /\ chain = "addAll"
    /\ IF STATIC_ASSETS \cap offline = {}
       THEN /\ cacheStorage' = [cacheStorage EXCEPT ![STATIC_CACHE_NAME] = @ \cup STATIC_ASSETS]
            /\ chain' = "skipWaiting"
       ELSE /\ cacheStorage' = cacheStorage
            /\ chain' = "catch"
    /\ UNCHANGED <<searchVars, worker, offline, skipWaiting, deleting, deleted, fetching>>

\* install: self.skipWaiting() after the assets were cached
InstallSkipWaiting ==
    /\ worker = "installing" /\ chain = "skipWaiting"
    /\ skipWaiting' = TRUE
    /\ chain' = "fulfilled"
    /\ UNCHANGED <<searchVars, worker, cacheStorage, offline, deleting, deleted, fetching>>

\* install: the catch handler logs the error and returns
InstallCatch ==
    /\ worker = "installing" /\ chain = "catch"
    /\ chain' = "fulfilled"
    /\ UNCHANGED <<searchVars, worker, cacheStorage, offline, skipWaiting, deleting, deleted, fetching>>

\* the promise passed to event.waitUntil by the install handler has settled:
\* the worker is installed when it was fulfilled, redundant when rejected
InstallEnd ==
    /\ worker = "installing" /\ chain \in {"fulfilled", "rejected"}
    /\ worker' = IF chain = "fulfilled" THEN "installed" ELSE "redundant"
    /\ chain' = "idle"
    /\ UNCHANGED <<searchVars, cacheStorage, offline, skipWaiting, deleting, deleted, fetching>>

\* the activate event is dispatched to the installed worker
ActivateStart ==
    /\ worker = "installed"
    /\ worker' = "activating"
    /\ chain' = "keys"
    /\ UNCHANGED <<searchVars, cacheStorage, offline, skipWaiting, deleting, deleted, fetching>>

\* activate: caches.keys(), then caches.delete for every old cache name
ActivateKeys ==
    /\ worker = "activating" /\ chain = "keys"
    /\ deleting' = {cacheName \in DOMAIN cacheStorage : IsOldCache(cacheName)}
    /\ chain' = "deletes"
    /\ UNCHANGED <<searchVars, worker, cacheStorage, offline, skipWaiting, deleted, fetching>>

\* activate: one of the caches.delete calls completes
ActivateDelete(cacheName) ==
    /\ worker = "activating" /\ chain = "deletes"
    /\ cacheName \in deleting
    /\ cacheStorage' = CachesDelete(cacheStorage, cacheName)
    /\ deleting' = deleting \ {cacheName}
    /\ deleted' = deleted \cup {cacheName}
    /\ UNCHANGED <<searchVars, worker, chain, offline, skipWaiting, fetching>>

\* activate: Promise.all has resolved, self.clients.claim()
ActivateClaim ==
    /\ worker = "activating" /\ chain = "deletes"
    /\ deleting = {}
    /\ chain' = "fulfilled"
    /\ UNCHANGED <<searchVars, worker, cacheStorage, offline, skipWaiting, deleting, deleted, fetching>>

\* the promise passed to event.waitUntil by the activate handler has settled
ActivateEnd ==
    /\ worker = "activating" /\ chain = "fulfilled"
    /\ worker' = "activated"
    /\ chain' = "idle"
    /\ UNCHANGED <<searchVars, cacheStorage, offline, skipWaiting, deleting, deleted, fetching>>

\* url.pathname.includes('timetable') || url.pathname.includes('api')
IsDataRequest(request) ==
    \/ Includes(request.pathname, <<"t","i","m","e","t","a","b","l","e">>)
    \/ Includes(request.pathname, <<"a","p","i">>)

\* cacheFirstWithNetworkFallback: caches.match(request) has resolved; the
\* cached response is returned, or fetch(request) is called
CacheFirstMatch(f) ==
    /\ BagIn(f, fetching) /\ f.cacheName = STATIC_CACHE_NAME /\ f.at = "match"
    /\ fetching' = IF CachesMatch(cacheStorage, f.request.url)
                   THEN fetching (-) SetToBag({f})
                   ELSE (fetching (-) SetToBag({f}))
                        (+) SetToBag({[f EXCEPT !.at = "fetch"]})
    /\ UNCHANGED <<searchVars, worker, chain, cacheStorage, offline, skipWaiting,
                   deleting, deleted>>

\* cacheFirstWithNetworkFallback: fetch(request) has settled; a response
\* leads to caches.open(STATIC_CACHE_NAME), a failure to the catch clause,
\* which returns the offline response
CacheFirstFetch(f) ==
    /\ BagIn(f, fetching) /\ f.cacheName = STATIC_CACHE_NAME /\ f.at = "fetch"
    /\ fetching' = IF f.request.url \in offline
                   THEN fetching (-) SetToBag({f})
                   ELSE (fetching (-) SetToBag({f}))
                        (+) SetToBag({[f EXCEPT !.at = "open"]})
    /\ UNCHANGED <<searchVars, worker, chain, cacheStorage, offline, skipWaiting,
                   deleting, deleted>>

\* cacheFirstWithNetworkFallback(request), step by step
cacheFirstWithNetworkFallback(f) == CacheFirstMatch(f) \/ CacheFirstFetch(f)

\* networkFirstWithCache: fetch(request) has settled; a response leads to
\* caches.open(cacheName), a failure to the catch clause, which calls
\* caches.match(request)
NetworkFirstFetch(f) ==
    /\ BagIn(f, fetching) /\ f.cacheName = CACHE_NAME /\ f.at = "fetch"
    /\ fetching' = (fetching (-) SetToBag({f}))
                   (+) SetToBag({[f EXCEPT !.at = IF f.request.url \in offline
                                                 THEN "match" ELSE "open"]})
    /\ UNCHANGED <<searchVars, worker, chain, cacheStorage, offline, skipWaiting,
                   deleting, deleted>>

\* networkFirstWithCache: caches.match(request) of the catch clause has
\* resolved; the cached response or the 503 response is returned
NetworkFirstMatch(f) ==
    /\ BagIn(f, fetching) /\ f.cacheName = CACHE_NAME /\ f.at = "match"
    /\ fetching' = fetching (-) SetToBag({f})
    /\ UNCHANGED <<searchVars, worker, chain, cacheStorage, offline, skipWaiting,
                   deleting, deleted>>

\* networkFirstWithCache(request, cacheName), step by step
networkFirstWithCache(f) == NetworkFirstFetch(f) \/ NetworkFirstMatch(f)

\* caches.open(f.cacheName) of either strategy has resolved and created the
\* cache when it did not exist; cache.put is called and not awaited, and the
\* network response is returned
FetchOpen(f) ==
    /\ BagIn(f, fetching) /\ f.at = "open"
    /\ cacheStorage' = CachesOpen(cacheStorage, f.cacheName)
    /\ fetching' = (fetching (-) SetToBag({f})) (+) SetToBag({[f EXCEPT !.at = "put"]})
    /\ UNCHANGED <<searchVars, worker, chain, offline, skipWaiting, deleting, deleted>>

\* the cache.put of either strategy completes, after the response was returned
FetchPut(f) ==
    /\ BagIn(f, fetching) /\ f.at = "put"
    /\ cacheStorage' = CachePut(cacheStorage, f.cacheName, f.request.url)
    /\ fetching' = fetching (-) SetToBag({f})
    /\ UNCHANGED <<searchVars, worker, chain, offline, skipWaiting, deleting, deleted>>

\* the fetch handler of the activated worker, for one more fetch event (an
\* event for a request that is being handled already starts a handler of its
\* own): a request that is not a GET is left alone, a data request starts
\* networkFirstWithCache(request, CACHE_NAME) with its fetch(request), any
\* other request starts cacheFirstWithNetworkFallback(request) with its
\* caches.match(request)
Fetch(request) ==
    /\ worker = "activated"
    /\ request.method = "GET" => BagCardinality(fetching) < MaxFetches
    /\ fetching' =
          IF request.method # "GET" THEN fetching
          ELSE IF IsDataRequest(request)
          THEN fetching (+) SetToBag({[request |-> request, cacheName |-> CACHE_NAME,
                                       at |-> "fetch"]})
          ELSE fetching (+) SetToBag({[request |-> request, cacheName |-> STATIC_CACHE_NAME,
                                       at |-> "match"]})
    /\ UNCHANGED <<searchVars, worker, chain, cacheStorage, offline, skipWaiting,
                   deleting, deleted>>

\* the requests of the page
Requests ==
    { [method |-> "GET", url |-> "./index.html",
       pathname |-> <<"/","i","n","d","e","x",".","h","t","m","l">>],
      [method |-> "GET", url |-> "./scripts/search.js",
       pathname |-> <<"/","s","c","r","i","p","t","s","/","s","e","a","r","c","h",".","j","s">>],
      [method |-> "GET", url |-> "./api/classes.json",
       pathname |-> <<"/","a","p","i","/","c","l","a","s","s","e","s",".","j","s","o","n">>],
      [method |-> "POST", url |-> "./report",
       pathname |-> <<"/","r","e","p","o","r","t">>] }

\* the caches found at installation: those of an earlier version of the
\* worker and those of this version, each present or not
EarlierCaches ==
    ("vpps-timetable-v0" :> {"./api/classes.json"})
    @@ ("vpps-static-v0" :> {"./", "./index.html"})
    @@ (CACHE_NAME :> {"./api/classes.json"})
    @@ (STATIC_CACHE_NAME :> {"./", "./index.html"})

FoundCaches == {[n \in names |-> EarlierCaches[n]] : names \in SUBSET DOMAIN EarlierCaches}

\* the network: everything in reach, one CDN asset out of reach, or offline
Outages ==
    { {},
      {"https://cdn.jsdelivr.net/npm/lucide@latest/dist/umd/lucide.min.js"},
      STATIC_ASSETS \cup {r.url : r \in Requests} }

\* ------------------------------------------------------------------------
\* Specification of the service worker: installation and activation over the
\* caches found and the state of the network, then the page's requests.
\* ------------------------------------------------------------------------
SwInit ==
    \E cs \in FoundCaches, off \in Outages :
        SearchInit(StoredHistory(0), SampleData, "ok") /\ SwInstalling(cs, off)

SwNext ==
    \/ InstallOpen
    \/ InstallAddAll
    \/ InstallSkipWaiting
    \/ InstallCatch
    \/ InstallEnd
    \/ ActivateStart
    \/ ActivateKeys
    \/ \E cacheName \in deleting : ActivateDelete(cacheName)
    \/ ActivateClaim
    \/ ActivateEnd
    \/ \E request \in Requests : Fetch(request)
    \/ \E f \in BagToSet(fetching) : cacheFirstWithNetworkFallback(f)
    \/ \E f \in BagToSet(fetching) : networkFirstWithCache(f)
    \/ \E f \in BagToSet(fetching) : FetchOpen(f)
    \/ \E f \in BagToSet(fetching) : FetchPut(f)

SwSpec == SwInit /\ [][SwNext]_vars

\* ------------------------------------------------------------------------
\* Properties
\* ------------------------------------------------------------------------
PendingIds == {p.id : p \in pending}
RunsOf(c) == {i \in 1..Len(timerRuns) : timerRuns[i].call = c}
HistoryQueriesOf(h) == [i \in 1..Len(h) |-> h[i].query]

\* C1: debounce coalescing.  In a run of handleSearchInput calls each made
\* before the timer of the previous one fired, the callback never runs for a
\* call that was followed by another one, and it runs exactly once, with the
\* string of that call, for the last call of the run (once its timer is no
\* longer armed); only the latest call can have a timer armed.
DebounceCoalescing ==
    /\ \A p \in pending : p.id = Len(calls) /\ p.query = calls[p.id]
    /\ \A c \in 1..Len(calls) :
          IF c \in superseded \/ c \in PendingIds
          THEN RunsOf(c) = {}
          ELSE /\ Cardinality(RunsOf(c)) = 1
               /\ \A i \in RunsOf(c) : timerRuns[i].query = calls[c]

\* a call was superseded by a call with another string, whose timer then fired
DebounceCoalescingWitness ==
    /\ Len(calls) = 2
    /\ calls[1] = <<"a">> /\ calls[2] = <<" ">>
    /\ 1 \in superseded
    /\ Len(timerRuns) = 1 /\ timerRuns[1].call = 2

\* the trimmed queries that the session added, oldest first
AddedQueries ==
    LET added == SelectSeq(timerRuns, LAMBDA r : r.added)
    IN  [i \in 1..Len(added) |-> Trim(added[i].query)]

\* the distinct elements of a sequence of additions, latest addition first
RECURSIVE MostRecentFirst(_)
MostRecentFirst(adds) ==
    IF adds = << >> THEN << >>
    ELSE LET last == adds[Len(adds)]
             before == SubSeq(adds, 1, Len(adds) - 1)
         IN  <<last>> \o SelectSeq(MostRecentFirst(before), LAMBDA x : x # last)

\* C2: after any sequence of additions to an empty history no two entries
\* have the same trimmed query, the entries are in the order of their
\* recording, latest first, and the list is made of the distinct trimmed
\* queries added, each at the place of its latest addition: adding a query
\* that is in the list moves it to the front, from any position; the
\* additions a, M, a leave the two entries a, M.
HistoryDedupOrdered ==
    /\ \A i, j \in 1..Len(history) :
          i < j => /\ Trim(history[i].query) # Trim(history[j].query)
                   /\ history[i].timestamp > history[j].timestamp
    /\ AddedQueries # << >> =>
          /\ history # << >>
          /\ history[1].query = AddedQueries[Len(AddedQueries)]
          /\ history[1].timestamp = now
    /\ loaded = << >> =>
          HistoryQueriesOf(history) = Take(MostRecentFirst(AddedQueries), MAX_HISTORY_ITEMS)
    /\ (loaded = << >> /\ AddedQueries = << <<"a">>, <<"M">>, <<"a">> >>)
          => HistoryQueriesOf(history) = << <<"a">>, <<"M">> >>

\* from an empty history a, M and a again were added, the last one typed with
\* a trailing blank: the entry of a moved from the second place to the front
HistoryDedupOrderedWitness ==
    /\ loaded = << >>
    /\ AddedQueries = << <<"a">>, <<"M">>, <<"a">> >>
    /\ timerRuns[Len(timerRuns)].query = <<"a"," ">>
    /\ HistoryQueriesOf(history) = << <<"a">>, <<"M">> >>

\* C3: the history never has more than ten entries, and it is made of the
\* ten most recently added distinct queries, latest first, the additions
\* being those behind the loaded history followed by those of the session.
HistoryTenMostRecent ==
    LET old == [i \in 1..Len(loaded) |-> loaded[Len(loaded) + 1 - i].query]
    IN  /\ Len(history) <= MAX_HISTORY_ITEMS
        /\ HistoryQueriesOf(history)
             = Take(MostRecentFirst(old \o AddedQueries), MAX_HISTORY_ITEMS)

\* two distinct queries were added to a full list: the two oldest are gone
HistoryTenMostRecentWitness ==
    /\ Len(loaded) = MAX_HISTORY_ITEMS
    /\ AddedQueries = << <<"M">>, <<"a">> >>
    /\ Len(history) = MAX_HISTORY_ITEMS
    /\ history[1].query = <<"a">> /\ history[2].query = <<"M">>
    /\ history[MAX_HISTORY_ITEMS].query = loaded[MAX_HISTORY_ITEMS - 2].query

\* C4 (as claimed): no step changes the filter values (day, periodRange.start,
\* periodRange.end, subject, teacherAvailability) of an entry that stays in
\* the history; an entry is known by its query and timestamp.
SnapshotFrozen ==
    [][\A i \in 1..Len(history), j \in 1..Len(history') :
          (/\ history[i].query = history'[j].query
           /\ history[i].timestamp = history'[j].timestamp)
          => FilterValue(history'[j].filters, heap')
               = FilterValue(history[i].filters, heap)]_vars

\* C5 (as claimed): once closeSearchModal has run, the query and the three
\* result buckets are empty until the next setQuery or applyHistoryItem, also
\* when a timer that was armed at close time fires afterwards.
ClosedStateStaysEmpty ==
    sinceClose => (query = S0 /\ results = EmptyResults)

\* C6 (as claimed): a call superseded within the debounce window has no side
\* effect: its string is scanned by no one (timer, handleFilterChange,
\* resetFilters) and no history entry is recorded for it.
SupersededHasNoSideEffect ==
    \A c \in superseded :
        calls[c] # calls[c + 1] => (RunsOf(c) = {} /\ c \notin rescanned)

\* C6 (amended): the debounce callback never runs for a superseded call, so
\* the timer neither scans its string nor records it: every history entry of
\* the session was recorded by the callback of a call that was not superseded.
SupersededNeverSettles ==
    /\ \A c \in superseded : RunsOf(c) = {}
    /\ \A k \in 1..Len(history) :
          \/ \E j \in 1..Len(loaded) :
                /\ loaded[j].query = history[k].query
                /\ loaded[j].timestamp = history[k].timestamp
          \/ \E i \in 1..Len(timerRuns) :
                /\ timerRuns[i].added
                /\ timerRuns[i].call \notin superseded
                /\ timerRuns[i].timestamp = history[k].timestamp
                /\ Trim(timerRuns[i].query) = history[k].query

\* a filter change scanned the string of a call that was then superseded, and
\* the superseding call settled and was recorded
SupersededNeverSettlesWitness ==
    /\ 1 \in superseded /\ 1 \in rescanned
    /\ Len(timerRuns) = 1 /\ timerRuns[1].call = 2 /\ timerRuns[1].added
    /\ Len(history) = 1

\* C7: when the callback runs for a string that trims to length 0, it leaves
\* the three result buckets empty, whatever the filters are, and the history
\* is what it was.
EmptyQueryShortCircuit ==
    [][(/\ Len(timerRuns') = Len(timerRuns) + 1
        /\ Len(Trim(timerRuns'[Len(timerRuns')].query)) = 0)
       => (/\ results' = EmptyResults
           /\ ~timerRuns'[Len(timerRuns')].added
           /\ HistoryValue(history', heap') = HistoryValue(history, heap))]_vars

\* a blank string settled after a query that had results, with a filter set
EmptyQueryShortCircuitWitness ==
    /\ Len(timerRuns) = 2
    /\ timerRuns[1].added
    /\ Len(Trim(timerRuns[2].query)) = 0
    /\ timerRuns[2].query # S0
    /\ filters.day = "Monday"
    /\ results = EmptyResults
    /\ Len(history) = 1

\* ------------------------------------------------------------------------
\* The filter predicates, stated over the live filters of a state.  The
\* bounds of the period range are decimal period indices here; a bound that
\* is empty leaves the range unset (start) or collapses it to start (end).
\* ------------------------------------------------------------------------
LiveFilters == FilterValue(filters, heap)

IsIndex(s) == s # S0 /\ \A i \in 1..Len(s) : IsDigit(s[i])

IndexOf(s) == DigitsValue(s)

IndexBounds(f) ==
    /\ f.periodRange.start = S0 \/ IsIndex(f.periodRange.start)
    /\ f.periodRange.end = S0 \/ IsIndex(f.periodRange.end)

\* the inclusive window [start, end] of a range whose start is set
Window(f) ==
    LET lo == IndexOf(f.periodRange.start)
        hi == IF f.periodRange.end = S0 THEN lo ELSE IndexOf(f.periodRange.end)
    IN  {p \in 0..hi : lo <= p}

HasEntries(details, day) ==
    day \in DOMAIN details.schedule /\ DOMAIN details.schedule[day] # {}

OccupiedAt(details, day, p) ==
    /\ day \in DOMAIN details.schedule
    /\ p \in DOMAIN details.schedule[day]
    /\ details.schedule[day][p]

\* rejection rule (a) of the teacher predicate
NoEntriesRule(details, f) == f.day # "" /\ ~HasEntries(details, f.day)

\* rejection rule (b) of the teacher predicate
BusyRule(details, f) ==
    /\ f.teacherAvailability /\ f.day # "" /\ f.periodRange.start # S0
    /\ \E p \in Window(f) : OccupiedAt(details, f.day, p)

TeacherNames(r) == {r.teachers[i].name : i \in 1..Len(r.teachers)}

ClassNames(r) == {r.classes[i].name : i \in 1..Len(r.classes)}

NameMatches(name, q) == Includes(ToLowerCase(name), Trim(ToLowerCase(q)))

MondayRange(lo, hi) ==
    [day |-> "Monday", periodRange |-> [start |-> lo, end |-> hi],
     subject |-> S0, teacherAvailability |-> TRUE]

\* C8: applyTeacherFilters accepts a teacher exactly when neither rejection
\* rule applies: (a) day is set and the schedule has no entries for that
\* day; (b) teacherAvailability is true, day is set, periodRange.start is
\* non-empty and some period of the inclusive range [start, end] is occupied
\* that day.  Ann, occupied on Monday in periods 0, 1 and 2 only, is accepted
\* for the range 3..5 and rejected for the range 1..3.
TeacherPredicateExact ==
    LET f == LiveFilters
        td == allData.teacherDetails
    IN  /\ IndexBounds(f) =>
              \A name \in DOMAIN td :
                  applyTeacherFilters(name, td[name], f)
                      <=> (~NoEntriesRule(td[name], f) /\ ~BusyRule(td[name], f))
        /\ applyTeacherFilters(Ann, SampleTeacherDetails[Ann], MondayRange(<<"3">>, <<"5">>))
        /\ ~applyTeacherFilters(Ann, SampleTeacherDetails[Ann], MondayRange(<<"1">>, <<"3">>))

\* the replayed query "a" scanned under Monday 3..5 with availability on:
\* Ann (free in 3..5) is a result, "A" (occupied in period 3) is not
TeacherPredicateExactWitness ==
    /\ allData = SampleData
    /\ query = <<"a">>
    /\ LiveFilters = MondayRange(<<"3">>, <<"5">>)
    /\ Ann \in TeacherNames(results)
    /\ <<"A">> \notin TeacherNames(results)

AvailabilitySet(f) ==
    /\ f.teacherAvailability /\ f.day # ""
    /\ IsIndex(f.periodRange.start)
    /\ f.periodRange.end = S0 \/ IsIndex(f.periodRange.end)

\* the statement of C9 as written: with teacherAvailability true and day and
\* periodRange set, the teacher results are exactly the name-matching
\* teachers with no occupied period in the window
AvailabilityWindowOnly ==
    LET f == LiveFilters
        td == allData.teacherDetails
    IN  (Active(query) /\ AvailabilitySet(f)) =>
            TeacherNames(results) =
                {name \in DOMAIN td :
                    /\ NameMatches(name, query)
                    /\ \A p \in Window(f) : ~OccupiedAt(td[name], f.day, p)}

\* C9: with teacherAvailability true, day set and periodRange.start a period
\* index (periodRange.end a period index, or empty and then equal to start),
\* the teacher results are exactly the name-matching teachers that have at
\* least one schedule entry for that day and no occupied period in that
\* day's window [start, end].
AvailabilityWindowOfTheDay ==
    LET f == LiveFilters
        td == allData.teacherDetails
    IN  (Active(query) /\ AvailabilitySet(f)) =>
            TeacherNames(results) =
                {name \in DOMAIN td :
                    /\ NameMatches(name, query)
                    /\ HasEntries(td[name], f.day)
                    /\ \A p \in Window(f) : ~OccupiedAt(td[name], f.day, p)}

\* Tuesday 3..5 with availability on: Ann has no Tuesday entries and is left
\* out although none of her periods in the window is occupied; "A", occupied
\* on Tuesday in period 7 only, is a result
AvailabilityWindowOfTheDayWitness ==
    /\ allData = SampleData
    /\ query = <<"a">>
    /\ LiveFilters.teacherAvailability
    /\ LiveFilters.day = "Tuesday"
    /\ LiveFilters.periodRange = [start |-> <<"3">>, end |-> <<"5">>]
    /\ TeacherNames(results) = {<<"A">>}

\* the day's slots of a class that has a timetable entry on the day
SlotsOf(className, day) == allData.timetable[day][className]

NonEmptyInWindow(className, f) ==
    \E p \in Window(f) :
        /\ p < Len(SlotsOf(className, f.day))
        /\ SlotsOf(className, f.day)[p + 1] # Free

SubjectOnDay(className, f) ==
    \E i \in 1..Len(SlotsOf(className, f.day)) :
        /\ SlotsOf(className, f.day)[i] # Free
        /\ Includes(ToLowerCase(SlotsOf(className, f.day)[i][1].subject),
                    ToLowerCase(f.subject))

AllClasses == UNION {DOMAIN allData.timetable[d] : d \in DOMAIN allData.timetable}

\* C10: applyClassFilters accepts a class exactly when day is empty, or the
\* class has a timetable entry on that day, and periodRange.start is empty
\* or at least one period with index in [start, end] and below the day's
\* period count is non-empty, and subject is empty or at least one period of
\* that day has a subject containing the subject filter case-insensitively.
ClassPredicateExact ==
    LET f == LiveFilters
        tt == allData.timetable
    IN  IndexBounds(f) =>
            \A className \in AllClasses :
                applyClassFilters(className, tt, f)
                    <=> \/ f.day = ""
                        \/ /\ f.day \in DOMAIN tt
                           /\ className \in DOMAIN tt[f.day]
                           /\ f.periodRange.start = S0 \/ NonEmptyInWindow(className, f)
                           /\ f.subject = S0 \/ SubjectOnDay(className, f)

\* the replayed query "a" scanned under Monday, the range 2..9 reaching past
\* the eight periods of the day, and the subject filter "ma": 6A (Math in
\* periods 0 and 1, English in period 2) is a result, Math Lab (no Monday
\* entry) is not
ClassPredicateExactWitness ==
    /\ allData = SampleData
    /\ query = <<"a">>
    /\ LiveFilters.day = "Monday"
    /\ LiveFilters.periodRange = [start |-> <<"2">>, end |-> <<"9">>]
    /\ LiveFilters.subject = <<"m", "a">>
    /\ ClassNames(results) = {C6A}

\* ------------------------------------------------------------------------
\* Period bounds that are not period indices
\* ------------------------------------------------------------------------
AllTeachers == DOMAIN allData.teacherDetails

\* the filters f with the period range replaced by [lo, hi]
WithRange(f, lo, hi) == [f EXCEPT !.periodRange = [start |-> lo, end |-> hi]]

\* a bound that is set and does not parse as an integer becomes "0"
ZeroIfUnparsable(b) == IF b = S0 \/ IsIndex(b) THEN b ELSE <<"0">>

SameOutcome(f, g) ==
    /\ \A name \in AllTeachers :
          applyTeacherFilters(name, allData.teacherDetails[name], f)
              = applyTeacherFilters(name, allData.teacherDetails[name], g)
    /\ \A className \in AllClasses :
          applyClassFilters(className, allData.timetable, f)
              = applyClassFilters(className, allData.timetable, g)

\* C11: a periodRange bound whose value does not parse as an integer is
\* treated as 0: for every teacher and every class, the outcome of the
\* predicates under the live filters equals the outcome with each unparsable
\* bound set to 0.
UnparsableBoundIsZero ==
    LET f == LiveFilters
    IN  SameOutcome(f, WithRange(f, ZeroIfUnparsable(f.periodRange.start),
                                    ZeroIfUnparsable(f.periodRange.end)))

SinglePeriods == {b \in PeriodInputs : IsIndex(b)}

\* C12: a periodRange with end set and start empty is evaluated by the
\* teacher and class predicates as a single-period range: there is a period
\* p such that every teacher and every class has the outcome it has under
\* the range [p, p].
EndWithoutStartIsSinglePeriod ==
    LET f == LiveFilters
    IN  (f.periodRange.start = S0 /\ IsIndex(f.periodRange.end)) =>
            \E p \in SinglePeriods : SameOutcome(f, WithRange(f, p, p))

\* ------------------------------------------------------------------------
\* Filter handlers and replay
\* ------------------------------------------------------------------------
\* C13: resetFilters is idempotent and complete: every call, the first or a
\* repeated one, leaves the all-empty FilterSet, and the scan it runs for an
\* active query gives the result set of that query under filters that were
\* never set, whatever the filters were before.
ResetIdempotentComplete ==
    [][ResetFilters =>
          /\ FilterValue(filters', heap') = EmptyFilters
          /\ Active(query') =>
                results' = performSearch(query', allData', EmptyFilters)
          /\ FilterValue(filters, heap) = EmptyFilters =>
                /\ FilterValue(filters', heap') = FilterValue(filters, heap)
                /\ Active(query) /\ results = performSearch(query, allData, EmptyFilters)
                      => results' = results]_vars

\* the one history entry holds the period start "1" that the live filters
\* were given, and the live filters are all-empty again: resetFilters has run
\* after handleFilterChange, and the results are those of the unfiltered scan
ResetIdempotentCompleteWitness ==
    /\ Len(history) = 1
    /\ FilterValue(history[1].filters, heap).periodRange.start = <<"1">>
    /\ LiveFilters = EmptyFilters
    /\ Active(query)
    /\ results = performSearch(query, allData, EmptyFilters)
    /\ results # EmptyResults

\* C14: when a non-empty query is active, handleFilterChange and resetFilters
\* re-scan synchronously, without the debounce delay: when either returns,
\* the results equal the scan of the current query under the just-updated
\* FilterSet; no time has passed and no timer was armed or cancelled.
FilterChangeRescansNow ==
    [][(/\ Active(query)
        /\ \/ \E in \in FilterInputs : HandleFilterChange(in[1], in[2])
           \/ ResetFilters) =>
          /\ query' = query
          /\ results' = performSearch(query, allData, FilterValue(filters', heap'))
          /\ now' = now
          /\ pending' = pending]_vars

\* no timer has run and the history is empty, so nothing but a filter
\* handler can have scanned: the results are those of the pending query "a"
\* under the period start that was set after it was typed
FilterChangeRescansNowWitness ==
    /\ timerRuns = << >>
    /\ history = << >>
    /\ pending # {}
    /\ query = <<"a">>
    /\ LiveFilters.periodRange.start = <<"1">>
    /\ results = performSearch(query, allData, LiveFilters)
    /\ results # EmptyResults

\* C15: applyHistoryItem(index) for an existing entry sets the live query and
\* the live FilterSet to the entry's stored query and filters and scans
\* synchronously: on return the results equal the scan of that query under
\* those filters; no time has passed and no timer was armed or cancelled.
ApplyHistoryItemReplays ==
    [][\A index \in {0, Len(history) - 1} :
          (index >= 0 /\ index < Len(history) /\ ApplyHistoryItem(index)) =>
              /\ query' = history[index + 1].query
              /\ FilterValue(filters', heap')
                    = FilterValue(history[index + 1].filters, heap)
              /\ results' = performSearch(history[index + 1].query, allData,
                                FilterValue(history[index + 1].filters, heap))
              /\ now' = now
              /\ pending' = pending]_vars

\* the query "a" is live although no handleSearchInput call set it last
\* (queryCall is 0), with the period start "1" its entry was recorded with
\* and the results of the scan under those filters: the entry was replayed
ApplyHistoryItemReplaysWitness ==
    /\ queryCall = 0
    /\ query = <<"a">>
    /\ LiveFilters.periodRange.start = <<"1">>
    /\ history[1].query = <<"a">>
    /\ results = performSearch(query, allData, LiveFilters)
    /\ results # EmptyResults

\* ------------------------------------------------------------------------
\* Persistence
\* ------------------------------------------------------------------------
\* the history a reload would find: the stored text deserialized
Reloaded ==
    LET parsed == loadSearchHistory(stored, << >>)
    IN  HistoryValue(parsed.history, parsed.heap)

\* C16: with storage writes succeeding, after any sequence of engine
\* operations the value persisted under the history key deserializes to
\* exactly the in-memory history list.
PersistedIsHistory ==
    storage = "ok" => Reloaded = HistoryValue(history, heap)

\* the queries of h without the one at position i
WithoutPosition(qs, i) == SubSeq(qs, 1, i - 1) \o SubSeq(qs, i + 1, Len(qs))

\* C17: if the storage write fails (storage full or disabled), the debounce
\* callback's addToHistory, removeHistoryItem and clearSearchHistory still
\* apply their change to the in-memory list: the added query comes first,
\* its earlier entry is gone, the other entries keep their order and at most
\* MAX_HISTORY_ITEMS entries are kept; the removed entry is gone; the cleared
\* list is empty; the stored text is left as it was.
WriteFailureKeepsMemory ==
    [][storage # "ok" =>
          /\ stored' = stored
          /\ ClearSearchHistory => history' = << >>
          /\ \A index \in {0, Len(history) - 1} :
                (index >= 0 /\ index < Len(history) /\ RemoveHistoryItem(index)) =>
                    HistoryQueriesOf(history')
                        = WithoutPosition(HistoryQueriesOf(history), index + 1)
          /\ \A p \in pending :
                (Active(p.query) /\ TimerFire(p)) =>
                    HistoryQueriesOf(history')
                        = Take(<<Trim(p.query)>>
                                 \o SelectSeq(HistoryQueriesOf(history),
                                              LAMBDA q : q # Trim(p.query)),
                               MAX_HISTORY_ITEMS)]_vars

\* storage is full and still holds the ten entries found at initialization;
\* in memory the list was cleared and the query "M" recorded afterwards
WriteFailureKeepsMemoryWitness ==
    /\ storage = "full"
    /\ stored = StoredHistory(MAX_HISTORY_ITEMS)
    /\ HistoryQueriesOf(history) = << <<"M">> >>

\* C18: if the stored text cannot be deserialized at initialization,
\* loadSearchHistory leaves the history empty and the engine behaves as with
\* no stored history: the list holds only entries recorded in this session,
\* and once a write has succeeded the stored text is the session's list.
CorruptStoredIsEmpty ==
    loaded = Corrupt =>
        /\ timerRuns = << >> => history = << >>
        /\ \A k \in 1..Len(history) :
              \E i \in 1..Len(timerRuns) :
                  /\ timerRuns[i].added
                  /\ Trim(timerRuns[i].query) = history[k].query
                  /\ timerRuns[i].timestamp = history[k].timestamp
        /\ (storage = "ok" /\ stored # Corrupt) => Reloaded = HistoryValue(history, heap)
        /\ (storage = "ok" /\ stored = Corrupt) => history = << >>

\* the text found at initialization did not parse; the session recorded the
\* query "a", and the stored text now deserializes to that one entry
CorruptStoredIsEmptyWitness ==
    /\ loaded = Corrupt
    /\ storage = "ok"
    /\ HistoryQueriesOf(history) = << <<"a">> >>
    /\ stored = HistoryValue(history, heap)

\* ------------------------------------------------------------------------
\* Scans
\* ------------------------------------------------------------------------
DataAbsent == "timetable" \notin DOMAIN allData \/ "teacherDetails" \notin DOMAIN allData

\* C19: if the timetable or the teacher details are absent when a scan runs,
\* the scan leaves all three result buckets empty, as for an empty query,
\* for every query and FilterSet: no scan of the session has put a result
\* into searchState.
AbsentDataScansEmpty ==
    DataAbsent => results = EmptyResults

\* only the timetable is loaded; the callback has run for the query "a" under
\* the day filter, recorded it, and left the results empty
AbsentDataScansEmptyWitness ==
    /\ allData = TimetableOnly
    /\ LiveFilters.day = "Monday"
    /\ HistoryQueriesOf(history) = << <<"a">> >>
    /\ query = <<"a">>
    /\ pending = {}
    /\ results = EmptyResults

SubjectNames(r) == {r.subjects[i].name : i \in 1..Len(r.subjects)}

\* the subject names of the timetable: the parts of the slots' subjects
\* between slashes, without surrounding blanks
SubjectTokens ==
    UNION {UNION {UNION {{Trim(tok) : tok \in Range(Split(allData.timetable[d][c][p][1].subject, "/"))}
                         : p \in {p \in 1..Len(allData.timetable[d][c]) :
                                    allData.timetable[d][c][p] # Free}}
                  : c \in DOMAIN allData.timetable[d]}
           : d \in DOMAIN allData.timetable}

\* lower(n) contains lower(trim(q))
Matches(n, q) == Includes(ToLowerCase(n), ToLowerCase(Trim(q)))

\* C20: name matching in the three scanners is case-insensitive substring
\* containment: a name passes the match of query q exactly when lower(name)
\* contains lower(trim(q)), so the scan of the live query selects, among the
\* names that pass the live filters, exactly those; the queries that are
\* equal to it after lower-casing and trimming select the same names.
CaseInsensitiveMatch ==
    LET f == LiveFilters
        same == {q \in MatchTyped : ToLowerCase(Trim(q)) = ToLowerCase(Trim(query))}
        scan == [q \in same \cup {query} |-> performSearch(q, allData, f)]
    IN  Active(query) =>
            /\ TeacherNames(scan[query]) =
                  {n \in AllTeachers :
                      /\ Matches(n, query)
                      /\ applyTeacherFilters(n, allData.teacherDetails[n], f)}
            /\ ClassNames(scan[query]) =
                  {n \in AllClasses :
                      Matches(n, query) /\ applyClassFilters(n, allData.timetable, f)}
            /\ SubjectNames(scan[query]) =
                  {n \in SubjectTokens :
                      Matches(n, query) /\ applySubjectFilters([name |-> n], f)}
            /\ \A q \in same :
                  /\ TeacherNames(scan[q]) = TeacherNames(scan[query])
                  /\ ClassNames(scan[q]) = ClassNames(scan[query])
                  /\ SubjectNames(scan[q]) = SubjectNames(scan[query])

\* the typed query " math " has settled: its results name the class Math Lab
\* and the subject Math, and they are the results of the query "MATH"
CaseInsensitiveMatchWitness ==
    /\ query = <<" ","m","a","t","h"," ">>
    /\ pending = {}
    /\ results = performSearch(<<"M","A","T","H">>, allData, LiveFilters)
    /\ ClassNames(results) = {MathLab}
    /\ SubjectNames(results) = {Math}
    /\ TeacherNames(results) = {}

\* ------------------------------------------------------------------------
\* Scan results
\* ------------------------------------------------------------------------
\* the subject token positions of a timetable: one per (day, class, period,
\* position between slashes) of the periods that have a subject
SubjectTuples(timetable) ==
    UNION {UNION {UNION {{[day |-> d, className |-> c, period |-> p, position |-> k]
                            : k \in 1..Len(Split(timetable[d][c][p][1].subject, "/"))}
                         : p \in {p \in 1..Len(timetable[d][c]) :
                                    /\ timetable[d][c][p] # Free
                                    /\ timetable[d][c][p][1].subject # S0}}
                  : c \in DOMAIN timetable[d]}
           : d \in DOMAIN timetable}

\* the trimmed token at a position, and the trimmed teachers of its period
TokenOf(timetable, t) ==
    Trim(Split(timetable[t.day][t.className][t.period][1].subject, "/")[t.position])

TeachersOf(timetable, t) ==
    LET teacher == timetable[t.day][t.className][t.period][1].teacher
    IN  IF teacher = S0 THEN {} ELSE {Trim(x) : x \in Range(Split(teacher, "/"))}

\* C21: the subject scan matches each trimmed token of a '/'-delimited
\* subject string on its own: for every token position whose token matches
\* the live query (and passes the subject filter) the scan has one result
\* named by the token, and that result holds every '/'-separated teacher of
\* the token's period and the period's class.
SubjectTokensIndependent ==
    LET tt == allData.timetable
        f == LiveFilters
        scan == performSearch(query, allData, f).subjects
    IN  Active(query) =>
            \A t \in SubjectTuples(tt) :
                LET name == TokenOf(tt, t)
                IN  (Matches(name, query) /\ applySubjectFilters([name |-> name], f)) =>
                        /\ Cardinality({i \in 1..Len(scan) : scan[i].name = name}) = 1
                        /\ \A i \in 1..Len(scan) :
                              scan[i].name = name =>
                                  /\ TeachersOf(tt, t) \subseteq Range(scan[i].teachers)
                                  /\ t.className \in Range(scan[i].classes)

\* the query "chem" has settled on the sample data: the one subject result is
\* Chem, of the period with subject "Phy/Chem" and teacher "A/B" of class 6B
SubjectTokensIndependentWitness ==
    /\ allData = SampleData
    /\ query = <<"c","h","e","m">>
    /\ pending = {}
    /\ LiveFilters = EmptyFilters
    /\ results.subjects = <<[name |-> Chem, teachers |-> << <<"A">>, <<"B">> >>,
                            classes |-> <<C6B>>, occurrences |-> 1]>>

\* a bucket in strictly ascending order of name: sorted, and no name twice
AscendingByName(bucket) ==
    \A i, j \in 1..Len(bucket) :
        i < j => /\ localeCompare(bucket[i].name, bucket[j].name) < 0
                 /\ bucket[i].name # bucket[j].name

\* the days on which a class is a key of the timetable
DaysOfClass(className) ==
    {d \in DOMAIN allData.timetable : className \in DOMAIN allData.timetable[d]}

\* C22: each of the three result buckets is sorted ascending by name and
\* holds each name at most once; a class result lists each of the days on
\* which the class has a timetable entry once, and no other day.
BucketsSortedUnique ==
    /\ AscendingByName(results.teachers)
    /\ AscendingByName(results.classes)
    /\ AscendingByName(results.subjects)
    /\ \A i \in 1..Len(results.classes) :
          LET days == results.classes[i].days
          IN  /\ Range(days) = DaysOfClass(results.classes[i].name)
              /\ \A j, k \in 1..Len(days) : j # k => days[j] # days[k]

\* the query "6" has settled on the sample data, whose timetable lists class
\* 6B before class 6A: the results list 6A, with its two days, before 6B
BucketsSortedUniqueWitness ==
    /\ allData = SampleData
    /\ query = <<"6">>
    /\ pending = {}
    /\ results.classes = <<[name |-> C6A, days |-> <<"Monday", "Tuesday">>],
                           [name |-> C6B, days |-> <<"Monday">>]>>

\* C26: the occurrences of a subject result count the token positions
\* (day, class, period, position between slashes) of the timetable whose
\* trimmed token is the result's name: a composite period counts once for
\* each of its tokens of that name.
OccurrencesCountTokens ==
    \A i \in 1..Len(results.subjects) :
        results.subjects[i].occurrences =
            Cardinality({t \in SubjectTuples(allData.timetable) :
                            TokenOf(allData.timetable, t) = results.subjects[i].name})

\* the query "h" has settled on the composite data: Phy is the subject of
\* three periods, one of them "Phy/Phy", and has four occurrences
OccurrencesCountTokensWitness ==
    /\ allData = CompositeData
    /\ query = <<"h">>
    /\ pending = {}
    /\ Len(results.subjects) = 2
    /\ results.subjects[1].name = Chem /\ results.subjects[1].occurrences = 3
    /\ results.subjects[2].name = Phy /\ results.subjects[2].occurrences = 4

\* ------------------------------------------------------------------------
\* Rendering after the modal was closed
\* ------------------------------------------------------------------------
\* C23: the results computed by a debounce timer that was armed when
\* closeSearchModal ran are never rendered: the run of such a timer's
\* callback does not write the sections of its scan's results to the
\* results container, whatever open, applyHistoryItem and timer events follow
\* the close.
ClosedTimerNeverRenders ==
    [][(/\ Len(timerRuns') = Len(timerRuns) + 1
        /\ timerRuns'[Len(timerRuns')].call \in closedOver) =>
          ~(/\ container'.kind = "search-results-sections"
            /\ container'.results = results')]_vars

\* ------------------------------------------------------------------------
\* Service worker
\* ------------------------------------------------------------------------
CurrentCaches == {"vpps-timetable-v1", "vpps-static-v1"}

\* C24: when the activate handler has completed, every cache whose name is
\* neither the current CACHE_NAME nor the current STATIC_CACHE_NAME is gone
\* from the cache storage, and the handler has deleted neither of the two
\* current caches.
ActivateCleansOldCaches ==
    worker = "activated" =>
        /\ DOMAIN cacheStorage \subseteq CurrentCaches
        /\ deleted \cap CurrentCaches = {}

\* the worker is activated over a storage that held the two caches of the
\* earlier version and the two current ones: the former were deleted, the
\* latter are there
ActivateCleansOldCachesWitness ==
    /\ worker = "activated"
    /\ deleted = {"vpps-timetable-v0", "vpps-static-v0"}
    /\ DOMAIN cacheStorage = CurrentCaches

\* C25: when a static asset cannot be fetched while the install event caches
\* STATIC_ASSETS, the install fails (the worker becomes redundant), so that
\* no worker is installed over a static cache that lacks an asset.
FailedFetchFailsInstall ==
    /\ (STATIC_ASSETS \cap offline # {} /\ worker # "installing") => worker = "redundant"
    /\ worker \in {"installed", "activating", "activated"} =>
          /\ STATIC_CACHE_NAME \in DOMAIN cacheStorage
          /\ STATIC_ASSETS \subseteq cacheStorage[STATIC_CACHE_NAME]

\* ------------------------------------------------------------------------
\* Results of the open modal
\* ------------------------------------------------------------------------
\* C27: whenever the modal is open and no debounce timer is armed, the
\* results are the scan of the live query under the live filters (three
\* empty buckets when the query trims to empty).
OpenIdleResultsCurrent ==
    (modalOpen /\ pending = {}) =>
        results = performSearch(query, allData, LiveFilters)

\* ------------------------------------------------------------------------
\* Loading the history
\* ------------------------------------------------------------------------
\* C28: whatever is found under the storage key at initialization (nothing,
\* a text that does not parse, or any JSON value, arrays or not), the
\* history is a list after loadSearchHistory, and addToHistory,
\* removeHistoryItem and applyHistoryItem do not throw.
LoadedHistoryIsList ==
    /\ IsArray(history)
    /\ thrown = {}

\* ------------------------------------------------------------------------
\* Frame of the history handlers
\* ------------------------------------------------------------------------
\* C29: applyHistoryItem(index) leaves the history as it is: the same
\* entries in the same order, each with its query, timestamp and filter
\* values, and the stored text is not written.
ApplyLeavesHistory ==
    [][(\E index \in {0, 1} : ApplyHistoryItem(index)) =>
          /\ stored' = stored
          /\ IF IsArray(history)
             THEN /\ IsArray(history')
                  /\ HistoryValue(history', heap') = HistoryValue(history, heap)
             ELSE history' = history]_vars

\* nothing was typed: the query is that of the second stored entry, replayed
\* from the history, which still holds the two stored entries in their order
ApplyLeavesHistoryWitness ==
    /\ calls = << >>
    /\ query = StoredQueries[2]
    /\ IsArray(history)
    /\ HistoryValue(history, heap) = StoredHistory(2)
    /\ stored = StoredHistory(2)

\* C30: removeHistoryItem(index) with 0 <= index < length removes the entry
\* at that position, keeps the other entries in their order and persists
\* the shortened list; with an index outside that range it leaves the
\* history as it is.
RemoveExactlyIndexed ==
    [][\A index \in HistoryIndexes :
          RemoveHistoryItem(index) =>
              LET before == HistoryValue(history, heap)
                  after == HistoryValue(history', heap')
              IN  IF 0 <= index /\ index < Len(history)
                  THEN /\ after = SubSeq(before, 1, index)
                                      \o SubSeq(before, index + 2, Len(before))
                       /\ stored' = after
                  ELSE after = before]_vars

====
